---- MODULE Spec2Model ----
(***************************************************************************)
(* Model of the Bakery KiCad plugin core: the S-expression parser with its *)
(* LRU parse cache and serializer (sexpr_parser.py), the library-table     *)
(* updates that use it (symbol_localizer.py, library_manager.py), and the  *)
(* datasheet classification / copy / rewrite protocol                      *)
(* (plugins/data_sheet_localizer.py, plugins/base_localizer.py).           *)
(*                                                                         *)
(* Text is a TLA+ string; a character is a string of length 1.  A tree     *)
(* node is either an atom [a |-> string] or a list [l |-> <<nodes>>].      *)
(***************************************************************************)
EXTENDS Integers, Sequences, FiniteSets, TLC

-----------------------------------------------------------------------------
(* Python string primitives *)

CharAt(s, i) == SubSeq(s, i, i)

IsSpace(c) == c \in {" ", "\t", "\n", "\r"}

\* the indices of s that hold a non-whitespace character
NonSpace(s) == {i \in 1..Len(s) : ~IsSpace(CharAt(s, i))}
MinOf(S) == CHOOSE x \in S : \A y \in S : x <= y
MaxOf(S) == CHOOSE x \in S : \A y \in S : x >= y

\* str.strip()
Strip(s) == IF NonSpace(s) = {} THEN ""
            ELSE SubSeq(s, MinOf(NonSpace(s)), MaxOf(NonSpace(s)))

\* str.startswith(p)
StartsWith(s, p) == Len(s) >= Len(p) /\ SubSeq(s, 1, Len(p)) = p

\* str.endswith(p)
EndsWith(s, p) == Len(s) >= Len(p) /\ SubSeq(s, Len(s) - Len(p) + 1, Len(s)) = p

\* the first index >= i at which p occurs in s, 0 when there is none (str.find)
FindFrom(s, p, i) ==
    LET hits == {k \in i..(Len(s) - Len(p) + 1) : SubSeq(s, k, k + Len(p) - 1) = p}
    IN  IF hits = {} THEN 0 ELSE MinOf(hits)

\* p in s
Contains(s, p) == FindFrom(s, p, 1) # 0

\* str.replace(old, new): every non-overlapping occurrence, left to right
RECURSIVE ReplaceFrom(_, _, _, _)
ReplaceFrom(s, old, new, i) ==
    LET k == FindFrom(s, old, i) IN
    IF k = 0 THEN SubSeq(s, i, Len(s))
    ELSE SubSeq(s, i, k - 1) \o new \o ReplaceFrom(s, old, new, k + Len(old))

Replace(s, old, new) == IF old = "" THEN s ELSE ReplaceFrom(s, old, new, 1)

\* str.lower() on the letters the model uses in upper case
LowerChar(c) ==
    CASE c = "P" -> "p" [] c = "D" -> "d" [] c = "F" -> "f"
      [] c = "H" -> "h" [] c = "T" -> "t" [] c = "S" -> "s"
      [] OTHER -> c

RECURSIVE LowerRange(_, _, _)
LowerRange(s, lo, hi) ==
    IF lo > hi THEN ""
    ELSE IF lo = hi THEN LowerChar(CharAt(s, lo))
    ELSE LET mid == (lo + hi) \div 2 IN
         LowerRange(s, lo, mid) \o LowerRange(s, mid + 1, hi)

Lower(s) == LowerRange(s, 1, Len(s))

-----------------------------------------------------------------------------
(* Constants of constants.py *)

SEXPR_LIB == "lib"
SEXPR_NAME == "name"
SEXPR_TYPE == "type"
SEXPR_URI == "uri"
SEXPR_OPTIONS == "options"
SEXPR_DESCR == "descr"
SEXPR_FP_LIB_TABLE == "fp_lib_table"
SEXPR_SYM_LIB_TABLE == "sym_lib_table"
SEXPR_SYMBOL == "symbol"
SEXPR_LIB_SYMBOLS == "kicad_symbol_lib"
LIBRARY_TYPE_KICAD == "KiCad"
ENV_VAR_KIPRJMOD == "KIPRJMOD"
EXTENSION_FOOTPRINT_LIB == ".pretty"
EXTENSION_SYMBOL == ".kicad_sym"

-----------------------------------------------------------------------------
(* Trees *)

Atom(s) == [a |-> s]
List(q) == [l |-> q]
IsList(n) == DOMAIN n = {"l"}
IsAtom(n) == DOMAIN n = {"a"}
EmptyList == List(<<>>)

-----------------------------------------------------------------------------
(* SExpressionParser.parse: the character scan *)

\* if current_token: stack[-1].append(current_token.strip())
FlushToken(stack, tok) ==
    IF tok = "" THEN stack
    ELSE [stack EXCEPT ![Len(stack)] = Append(@, Atom(Strip(tok)))]

\* One iteration of the while loop of parse at the 1-based index i.
\* st = [raised, stack, tok, in_string, escape_next]; raised is the
\* IndexError of stack[-1] on an empty stack, after a ')' popped the
\* outermost list, and ends the scan.
parse_step(text, st, i) ==
    IF st.raised THEN st
    ELSE
      LET char == CharAt(text, i) IN
      IF st.escape_next
        THEN [st EXCEPT !.tok = @ \o char, !.escape_next = FALSE]
      ELSE IF char = "\\" /\ st.in_string
        THEN [st EXCEPT !.tok = @ \o char, !.escape_next = TRUE]
      ELSE IF char = "\"" /\ (i = 1 \/ CharAt(text, i - 1) # "\\")
        THEN [st EXCEPT !.tok = @ \o char, !.in_string = ~@]
      ELSE IF st.in_string
        THEN [st EXCEPT !.tok = @ \o char]
      ELSE IF char = "("
        THEN [st EXCEPT !.stack = Append(FlushToken(st.stack, st.tok), <<>>),
                        !.tok = ""]
      ELSE IF char = ")"
        THEN LET fl == FlushToken(st.stack, st.tok)
                 completed == fl[Len(fl)]
                 popped == SubSeq(fl, 1, Len(fl) - 1)
             IN  IF Len(popped) = 0
                   THEN [st EXCEPT !.raised = TRUE, !.stack = popped, !.tok = ""]
                   ELSE [st EXCEPT
                           !.stack = [popped EXCEPT
                                        ![Len(popped)] = Append(@, List(completed))],
                           !.tok = ""]
      ELSE IF IsSpace(char)
        THEN [st EXCEPT !.stack = FlushToken(st.stack, st.tok), !.tok = ""]
      ELSE [st EXCEPT !.tok = @ \o char]

\* The iterations lo..hi in order (split in halves to keep the evaluation
\* shallow; the result is that of the left-to-right scan).
RECURSIVE parse_range(_, _, _, _)
parse_range(text, st, lo, hi) ==
    IF lo > hi THEN st
    ELSE IF lo = hi THEN parse_step(text, st, lo)
    ELSE LET mid == (lo + hi) \div 2
             left == parse_range(text, st, lo, mid)
         IN  IF left.raised THEN left ELSE parse_range(text, left, mid + 1, hi)

parse_loop(text) ==
    parse_range(text,
                [raised |-> FALSE, stack |-> <<(<<>>)>>, tok |-> "",
                 in_string |-> FALSE, escape_next |-> FALSE],
                1, Len(text))

\* Lines 105-154 on an already stripped text: the scan and
\* result = stack[0][0] if stack[0] else []
parse_fresh(text) ==
    LET r == parse_loop(text) IN
    IF r.raised THEN [raised |-> TRUE, tree |-> EmptyList]
    ELSE [raised |-> FALSE,
          tree |-> IF Len(r.stack[1]) > 0 THEN r.stack[1][1] ELSE EmptyList]

-----------------------------------------------------------------------------
(* SExpressionParser.to_string, _format_symbol_lib, _format_symbol.         *)
(* A result is [raised, s]: raised is the TypeError of                      *)
(* `keyword in inline_keywords` when the keyword of a list is itself a list *)
(* (an unhashable set member).                                              *)

Str(s) == [raised |-> FALSE, s |-> s]
RaisedStr == [raised |-> TRUE, s |-> ""]
Cat(r1, r2) == IF r1.raised \/ r2.raised THEN RaisedStr ELSE Str(r1.s \o r2.s)

RECURSIVE Tabs(_)
Tabs(n) == IF n <= 0 THEN "" ELSE "\t" \o Tabs(n - 1)

inline_keywords ==
    {"version", "generator", "generator_version", "hide", "offset",
     "exclude_from_sim", "in_bom", "on_board", "at", "size", "justify",
     "width", "type", "length", "number", "embedded_fonts",
     "power", "xy", "start", "mid", "end", "radius", "center"}

RECURSIVE to_string(_, _)
RECURSIVE ts_table_items(_, _, _)
RECURSIVE ts_lib_items(_, _, _)
RECURSIVE ts_compact_items(_, _, _)
RECURSIVE format_symbol_lib_items(_, _, _)
RECURSIVE format_symbol(_, _)
RECURSIVE fs_items(_, _, _, _, _)
RECURSIVE fs_multi_items(_, _, _, _)

\* the for loops of _format_symbol whose list children are all formatted at
\* one indent: a list child gives listPrefix + _format_symbol(item, listIndent),
\* an atom child atomPrefix + str(item)
fs_items(q, k, listPrefix, listIndent, atomPrefix) ==
    IF k > Len(q) THEN Str("")
    ELSE Cat(IF IsList(q[k])
               THEN Cat(Str(listPrefix), format_symbol(q[k], listIndent))
               ELSE Str(atomPrefix \o q[k].a),
             fs_items(q, k + 1, listPrefix, listIndent, atomPrefix))

\* the for loop of the multi-line format (lines 406-418)
fs_multi_items(q, k, indent, keyword) ==
    IF k > Len(q) THEN Str("")
    ELSE
      LET item == q[k]
          nl == "\n" \o Tabs(indent) \o "\t"
          one ==
            IF IsList(item)
              THEN IF Len(item.l) <= 3 /\ \A j \in 1..Len(item.l) : ~IsList(item.l[j])
                     THEN Cat(Str(nl), format_symbol(item, 0))
                     ELSE Cat(Str(nl), format_symbol(item, indent + 1))
              ELSE IF keyword \in {"property", "pin", "name"}
                     THEN Str(" " \o item.a)
                     ELSE Str(nl \o item.a)
      IN Cat(one, fs_multi_items(q, k + 1, indent, keyword))

format_symbol(sexpr, indent) ==
    IF ~IsList(sexpr) THEN Str(sexpr.a)
    ELSE IF Len(sexpr.l) = 0 THEN Str("[]")
    ELSE
      LET q == sexpr.l
          tabs == Tabs(indent)
          nl == "\n" \o tabs \o "\t"
          close == Str("\n" \o tabs \o ")")
      IN
      IF IsList(q[1]) THEN RaisedStr
      ELSE
        LET keyword == q[1].a IN
        IF keyword \in inline_keywords \/ (Len(q) = 2 /\ ~IsList(q[2]))
          THEN Cat(Str("(" \o keyword), Cat(fs_items(q, 2, " ", 0, " "), Str(")")))
        ELSE IF keyword = "pts"
          THEN Cat(Str("(pts"), Cat(fs_items(q, 2, " ", 0, " "), Str(")")))
        ELSE IF keyword = "symbol" /\ Len(q) > 1 /\ ~IsList(q[2])
          THEN Cat(Str("(symbol " \o q[2].a),
                   Cat(fs_items(q, 3, nl, indent + 1, nl), close))
        ELSE IF keyword \in {"pin_names", "pin_numbers"} /\ Len(q) = 1
          THEN Str("(" \o keyword \o ")")
        ELSE IF keyword \in {"pin_names", "pin_numbers"}
                /\ ~(\E j \in 2..Len(q) : IsList(q[j]) /\ Len(q[j].l) > 2)
          THEN Cat(Str("(" \o keyword), Cat(fs_items(q, 2, nl, 0, nl), close))
        ELSE Cat(Str("(" \o keyword), Cat(fs_multi_items(q, 2, indent, keyword), close))

format_symbol_lib_items(q, k, indent) ==
    IF k > Len(q) THEN Str("")
    ELSE
      LET nl == "\n" \o Tabs(indent) \o "\t" IN
      Cat(IF IsList(q[k])
            THEN Cat(Str(nl), format_symbol(q[k], indent + 1))
            ELSE Str(nl \o "(" \o q[k].a \o ")"),
          format_symbol_lib_items(q, k + 1, indent))

format_symbol_lib(sexpr, indent) ==
    Cat(Str("(" \o sexpr.l[1].a),
        Cat(format_symbol_lib_items(sexpr.l, 2, indent),
            Str("\n" \o Tabs(indent) \o ")")))

\* fp_lib_table: only the list children are written, one per line
ts_table_items(q, k, indent) ==
    IF k > Len(q) THEN Str("")
    ELSE Cat(IF IsList(q[k])
               THEN Cat(Str("\n  "), to_string(q[k], indent + 2))
               ELSE Str(""),
             ts_table_items(q, k + 1, indent))

\* lib: the children are concatenated with no separator
ts_lib_items(q, k, indent) ==
    IF k > Len(q) THEN Str("")
    ELSE Cat(to_string(q[k], indent), ts_lib_items(q, k + 1, indent))

\* other lists: all the elements, separated by one space
ts_compact_items(q, k, indent) ==
    IF k > Len(q) THEN Str("")
    ELSE Cat(Cat(Str(IF k > 1 THEN " " ELSE ""), to_string(q[k], indent)),
             ts_compact_items(q, k + 1, indent))

to_string(sexpr, indent) ==
    IF ~IsList(sexpr) THEN Str(sexpr.a)
    ELSE IF Len(sexpr.l) = 0 THEN Str("()")
    ELSE
      LET q == sexpr.l IN
      IF q[1] = Atom(SEXPR_FP_LIB_TABLE)
        THEN Cat(Str("(" \o SEXPR_FP_LIB_TABLE),
                 Cat(ts_table_items(q, 2, indent), Str("\n)")))
      ELSE IF q[1] = Atom(SEXPR_LIB)
        THEN Cat(Str("(" \o SEXPR_LIB), Cat(ts_lib_items(q, 2, indent), Str(")")))
      ELSE IF q[1] = Atom(SEXPR_LIB_SYMBOLS)
        THEN format_symbol_lib(sexpr, indent)
      ELSE IF q[1] = Atom(SEXPR_SYMBOL)
        THEN format_symbol(sexpr, indent)
      ELSE Cat(Str("("), Cat(ts_compact_items(q, 1, indent), Str(")")))

-----------------------------------------------------------------------------
(* State *)

VARIABLES
    owner,           \* the object that owns the parser and the files: "SymbolLocalizer",
                     \* "LibraryManager", "DataSheetLocalizer" or another "caller"
    max_cache_size,  \* SExpressionParser.max_cache_size
    cache,           \* SExpressionParser.cache, oldest entry first: <<[key, value]>>
    files,           \* the project files the owner reads and writes: name -> [exists, content]
    last,            \* the operation that ran last, [op, ok], and the parse call it made,
                     \* [parsed, text, hit, raised, result]
    accessed,        \* history (kept by SpecLRU): the distinct trimmed texts parsed, least
                     \* recently accessed first
    n_updates,       \* history: the number of library / table updates run so far
    ser,             \* a serializer round trip: [phase, text, sexpr, out, back]; or a tree
                     \* handed to a tree query and the answer: [phase, sexpr, query, result]
    seen,            \* the seen set the scans hand to _classify_datasheet_ref
    scan,            \* a scan in progress: [values, pos, verdicts, datasheets] and
                     \* the last classification [value, seen_before, verdict]
    datasheet_map,   \* the reference map, old reference -> new reference, as the
                     \* sequence of <<old, new>> in insertion order
    backups,         \* BackupManager.backups: the contents backed up so far (the backup
                     \* paths in SpecBackup)
    applied,         \* history: the rewrites run so far, [before, after, written]
    copy             \* a copy_datasheets call in progress; the clock [pc, now] in SpecBackup

parser_vars == <<owner, max_cache_size, cache, files, last, accessed, n_updates>>
serializer_vars == <<ser>>
datasheet_vars == <<seen, scan, datasheet_map, backups, applied, copy>>

-----------------------------------------------------------------------------
(* Bounds of the model *)

\* the largest max_cache_size a parser is constructed with
MaxCacheSize == 2
\* the number of library / table updates in one behaviour
MaxUpdates == 2
\* the number of successful create_backup calls in one behaviour
MaxBackups == 3

-----------------------------------------------------------------------------
(* SExpressionParser.parse with its cache *)

\* the index of key in the OrderedDict, 0 when absent (text in self.cache)
cache_index(c, key) ==
    IF \E i \in 1..Len(c) : c[i].key = key
      THEN CHOOSE i \in 1..Len(c) : c[i].key = key
      ELSE 0

\* a parser whose hit leaves the entry where it is (insertion order instead
\* of access order)
move_to_end_skipped(c, i) == c

\* self.cache.move_to_end(text)
move_to_end(c, i) ==
    SubSeq(c, 1, i - 1) \o SubSeq(c, i + 1, Len(c)) \o <<c[i]>>

\* a parser that evicts only when the cache is over capacity (> for >=)
evict_if_over(c, n) ==
    IF Len(c) > n
      THEN IF Len(c) = 0 THEN [raised |-> TRUE, evicted |-> FALSE, cache |-> c]
           ELSE [raised |-> FALSE, evicted |-> TRUE, cache |-> Tail(c)]
      ELSE [raised |-> FALSE, evicted |-> FALSE, cache |-> c]

\* if len(self.cache) >= self.max_cache_size: self.cache.popitem(last=False)
\* popitem on an empty OrderedDict raises KeyError
evict_if_full(c, n) ==
    IF Len(c) >= n
      THEN IF Len(c) = 0 THEN [raised |-> TRUE, evicted |-> FALSE, cache |-> c]
           ELSE [raised |-> FALSE, evicted |-> TRUE, cache |-> Tail(c)]
      ELSE [raised |-> FALSE, evicted |-> FALSE, cache |-> c]

\* self.cache[text] = result
cache_store(c, key, tree) == Append(c, [key |-> key, value |-> tree])

\* parse(text) on the cache c of a parser with max_cache_size n:
\* the cache after the call, whether the call raised, whether it was a
\* cache hit, whether it evicted an entry, and the tree returned (the cached
\* object itself on a hit and on a miss)
parse(c, n, text) ==
    LET key == Strip(text)
        i == cache_index(c, key)
    IN
    IF i # 0
      THEN [cache |-> move_to_end(c, i), raised |-> FALSE, hit |-> TRUE,
            evicted |-> FALSE, result |-> c[i].value]
    ELSE
      LET ev == evict_if_full(c, n) IN
      IF ev.raised
        THEN [cache |-> ev.cache, raised |-> TRUE, hit |-> FALSE,
              evicted |-> FALSE, result |-> EmptyList]
      ELSE
        LET r == parse_fresh(key) IN
        IF r.raised
          THEN [cache |-> ev.cache, raised |-> TRUE, hit |-> FALSE,
                evicted |-> ev.evicted, result |-> EmptyList]
          ELSE [cache |-> cache_store(ev.cache, key, r.tree), raised |-> FALSE,
                hit |-> FALSE, evicted |-> ev.evicted, result |-> r.tree]

\* the record of an operation op and of the parse call p it made on text
OpRecord(op, ok, text, p) ==
    [op |-> op, ok |-> ok, parsed |-> TRUE, text |-> text, hit |-> p.hit,
     raised |-> p.raised, evicted |-> p.evicted, result |-> p.result]

\* the record of an operation that made no parse call
OpRecordNoParse(op, ok) ==
    [op |-> op, ok |-> ok, parsed |-> FALSE, text |-> "", hit |-> FALSE,
     raised |-> FALSE, evicted |-> FALSE, result |-> EmptyList]

\* history of successful accesses: key becomes the most recent
Touch(acc, key) ==
    LET rest == SelectSeq(acc, LAMBDA k : k # key) IN Append(rest, key)

\* the caller's in-place change of the tree parse returned: the object is the
\* one the cache holds under the (now most recent) key
mutate_returned(c, tree) ==
    IF Len(c) = 0 THEN c ELSE [c EXCEPT ![Len(c)].value = tree]

-----------------------------------------------------------------------------
(* The library / table updates that use the parser *)

\* str.strip(c) for one character c
StripChar(s, c) ==
    LET keep == {i \in 1..Len(s) : CharAt(s, i) # c} IN
    IF keep = {} THEN "" ELSE SubSeq(s, MinOf(keep), MaxOf(keep))

NoFile == [exists |-> FALSE, content |-> ""]
File(content) == [exists |-> TRUE, content |-> content]

\* the header write_symbol_library starts a new library with
new_symbol_lib ==
    List(<<Atom(SEXPR_LIB_SYMBOLS),
           List(<<Atom("version"), Atom("20241209")>>),
           List(<<Atom("generator"), Atom("kicad_symbol_editor")>>),
           List(<<Atom("generator_version"), Atom("9.0")>>)>>)

\* new_lib_entry of update_sym_lib_table
sym_lib_entry(symbol_lib_name, symbol_dir_name) ==
    List(<<Atom(SEXPR_LIB),
           List(<<Atom(SEXPR_NAME), Atom("\"" \o symbol_lib_name \o "\"")>>),
           List(<<Atom(SEXPR_TYPE), Atom("\"" \o LIBRARY_TYPE_KICAD \o "\"")>>),
           List(<<Atom(SEXPR_URI),
                  Atom("\"${" \o ENV_VAR_KIPRJMOD \o "}/" \o symbol_dir_name \o "/"
                       \o symbol_lib_name \o EXTENSION_SYMBOL \o "\"")>>),
           List(<<Atom(SEXPR_OPTIONS), Atom("\"\"")>>),
           List(<<Atom(SEXPR_DESCR), Atom("\"Local project symbol library\"")>>)>>)

\* new_lib_entry of update_fp_lib_table
fp_lib_entry(lib_name) ==
    List(<<Atom(SEXPR_LIB),
           List(<<Atom(SEXPR_NAME), Atom("\"" \o lib_name \o "\"")>>),
           List(<<Atom(SEXPR_TYPE), Atom("\"" \o LIBRARY_TYPE_KICAD \o "\"")>>),
           List(<<Atom(SEXPR_URI),
                  Atom("\"${" \o ENV_VAR_KIPRJMOD \o "}/" \o lib_name
                       \o EXTENSION_FOOTPRINT_LIB \o "\"")>>),
           List(<<Atom(SEXPR_OPTIONS), Atom("\"\"")>>),
           List(<<Atom(SEXPR_DESCR), Atom("\"Local project library\"")>>)>>)

\* if isinstance(sexpr, list) and len(sexpr) > 0: sexpr.append(new_lib_entry)
append_entry(sexpr, entry) ==
    IF IsList(sexpr) /\ Len(sexpr.l) > 0 THEN List(Append(sexpr.l, entry)) ELSE sexpr

\* the already-listed test of update_sym_lib_table on the raw file content
already_listed(content, symbol_lib_name) ==
    \/ Contains(content, "(" \o SEXPR_NAME \o " \"" \o symbol_lib_name \o "\")")
    \/ Contains(content, "(" \o SEXPR_NAME \o " '" \o symbol_lib_name \o "')")

\* the inner loop of update_fp_lib_table over the sub-items of one lib entry:
\* raised is the AttributeError of .strip on a list
fp_entry_info(item) ==
    LET q == item.l
        fields(kw) == {i \in 1..Len(q) :
                         IsList(q[i]) /\ Len(q[i].l) >= 2 /\ q[i].l[1] = Atom(kw)}
        names == fields(SEXPR_NAME)
        uris == fields(SEXPR_URI)
    IN  [raised |-> \E i \in names : IsList(q[i].l[2]),
         has_name |-> names # {},
         name |-> IF names # {} /\ ~IsList(q[MaxOf(names)].l[2])
                    THEN StripChar(StripChar(q[MaxOf(names)].l[2].a, "\""), "'")
                    ELSE "",
         uri_index |-> IF uris = {} THEN 0 ELSE MaxOf(uris)]

\* the outer loop of update_fp_lib_table from element k on: the first lib
\* entry named lib_name is found and its URI is made to end in .pretty
RECURSIVE fp_scan(_, _, _)
fp_scan(q, k, lib_name) ==
    IF k > Len(q) THEN [raised |-> FALSE, found |-> FALSE, q |-> q]
    ELSE IF ~(IsList(q[k]) /\ Len(q[k].l) > 0 /\ q[k].l[1] = Atom(SEXPR_LIB))
      THEN fp_scan(q, k + 1, lib_name)
    ELSE
      LET info == fp_entry_info(q[k]) IN
      IF info.raised THEN [raised |-> TRUE, found |-> FALSE, q |-> q]
      ELSE IF ~(info.has_name /\ info.name = lib_name)
        THEN fp_scan(q, k + 1, lib_name)
      ELSE IF info.uri_index = 0
        THEN [raised |-> FALSE, found |-> TRUE, q |-> q]
      ELSE IF IsList(q[k].l[info.uri_index].l[2])
        THEN [raised |-> TRUE, found |-> TRUE, q |-> q]
      ELSE IF EndsWith(StripChar(StripChar(q[k].l[info.uri_index].l[2].a, "\""), "'"),
                       EXTENSION_FOOTPRINT_LIB)
        THEN [raised |-> FALSE, found |-> TRUE, q |-> q]
      ELSE [raised |-> FALSE, found |-> TRUE,
            q |-> [q EXCEPT ![k] = List([q[k].l EXCEPT ![info.uri_index] =
                     List(<<Atom(SEXPR_URI),
                            Atom("\"${" \o ENV_VAR_KIPRJMOD \o "}/" \o lib_name
                                 \o EXTENSION_FOOTPRINT_LIB \o "\"")>>)])]]

RECURSIVE append_all(_, _, _)
append_all(q, items, k) ==
    IF k > Len(items) THEN q ELSE append_all(Append(q, items[k]), items, k + 1)

-----------------------------------------------------------------------------
(* Inputs *)

DEFAULT_LOCAL_LIB_NAME == "MyLib"
DEFAULT_SYMBOL_LIB_NAME == "MySymbols"
DEFAULT_SYMBOL_DIR_NAME == "MySym"

SYM_LIB_TABLE_FILE == "sym-lib-table"
FP_LIB_TABLE_FILE == "fp-lib-table"
SYMBOL_LIB_FILE == "MySymbols.kicad_sym"

\* texts handed to parse by callers other than the updates (the contents of
\* other files): one well-formed, one with a surplus ')'
ParseTexts == {"(lib MyLib)", "(a))"}

\* a symbol copied from a global library
symbol_R ==
    List(<<Atom(SEXPR_SYMBOL), Atom("\"R\""),
           List(<<Atom("property"), Atom("\"Datasheet\""), Atom("\"~\"")>>)>>)

SymbolContents == {<<>>, <<symbol_R>>}

\* the project files a SymbolLocalizer may find
SymbolLocalizerFiles ==
    { [f \in {SYM_LIB_TABLE_FILE, SYMBOL_LIB_FILE} |->
         IF f = SYM_LIB_TABLE_FILE THEN t ELSE l] :
      t \in {NoFile,
             File("(sym_lib_table\n  (lib (name \"Other\")(uri \"o\"))\n)"),
             File("(sym_lib_table (lib (name MySymbols)(uri \"u\")))")},
      l \in {NoFile,
             File("(kicad_symbol_lib (version 20241209))")} }
    \cup
    { [f \in {SYM_LIB_TABLE_FILE, SYMBOL_LIB_FILE} |->
         IF f = SYM_LIB_TABLE_FILE
           THEN File("(sym_lib_table (lib (name \"MySymbols\")(uri \"u\")))")
           ELSE File(" \n")],
      [f \in {SYM_LIB_TABLE_FILE, SYMBOL_LIB_FILE} |->
         IF f = SYM_LIB_TABLE_FILE
           THEN File("(sym_lib_table))")
           ELSE File("(lib MyLib)")] }

\* the project files a LibraryManager may find
LibraryManagerFiles ==
    { [f \in {FP_LIB_TABLE_FILE} |-> t] :
      t \in {NoFile,
             File("(fp_lib_table\n  (lib (name \"Other\")(uri \"o.pretty\"))\n)"),
             File("(fp_lib_table (lib (name \"MyLib\")(uri \"${KIPRJMOD}/MyLib\")))"),
             File("(fp_lib_table (lib (name MyLib)(uri \"x.pretty\")))"),
             File("(fp_lib_table (lib (name (MyLib))))"),
             File("(lib MyLib)")} }

-----------------------------------------------------------------------------
(* Operations on one parser and the files of its owner *)

\* no round trip, scan, rewrite or copy is in progress
SerializerIdle ==
    ser = [phase |-> "idle", text |-> "", sexpr |-> EmptyList, out |-> "",
           back |-> EmptyList]

NoCall == [made |-> FALSE, value |-> [none |-> TRUE], seen_before |-> {}, verdict |-> ""]

DatasheetIdle ==
    /\ seen = {}
    /\ scan = [values |-> <<>>, pos |-> 0, verdicts |-> <<>>, datasheets |-> <<>>,
               call |-> NoCall]
    /\ datasheet_map = <<>>
    /\ backups = <<>>
    /\ applied = <<>>
    /\ copy = [pc |-> "idle"]

\* the owner has constructed its parser (a positive max_cache_size, the
\* default being MAX_CACHE_SIZE) and found its project files
Init ==
    /\ SerializerIdle
    /\ DatasheetIdle
    /\ owner \in {"SymbolLocalizer", "LibraryManager"}
    /\ max_cache_size \in 1..MaxCacheSize
    /\ cache = <<>>
    /\ files \in IF owner = "SymbolLocalizer" THEN SymbolLocalizerFiles
                 ELSE LibraryManagerFiles
    /\ last = OpRecordNoParse("init", TRUE)
    /\ accessed = <<>>
    /\ n_updates = 0

\* the contents of the files that exist
FileContents == {files[f].content : f \in {g \in DOMAIN files : files[g].exists}}

\* SExpressionParser.parse(text), called on some text or on a file's content
ParseCall(text) ==
    LET p == parse(cache, max_cache_size, text) IN
    /\ cache' = p.cache
    /\ last' = OpRecord("parse", ~p.raised, text, p)
    /\ UNCHANGED <<owner, max_cache_size, files, n_updates>>
    /\ UNCHANGED <<serializer_vars, datasheet_vars>>

Parse(text) == ParseCall(text) /\ UNCHANGED accessed

\* SExpressionParser.clear_cache()
ClearCache ==
    /\ cache' = <<>>
    /\ last' = OpRecordNoParse("clear_cache", TRUE)
    /\ UNCHANGED <<owner, max_cache_size, files, n_updates, accessed>>
    /\ UNCHANGED <<serializer_vars, datasheet_vars>>

\* the common tail of the three updates: the parse call p made on the file's
\* content (parsed says whether one was made), the tree to write, whether the
\* tree is the object parse returned (aliased), and whether open(path, 'w')
\* succeeds
FinishUpdate(op, file, content, parsed, p, tree, aliased, failed, write_ok) ==
    LET out == to_string(tree, 0)
        ok == ~failed /\ ~out.raised /\ write_ok
    IN  /\ cache' = IF parsed /\ ~p.raised /\ aliased
                      THEN mutate_returned(p.cache, tree) ELSE p.cache
        /\ last' = IF parsed THEN OpRecord(op, ok, content, p)
                   ELSE OpRecordNoParse(op, ok)
        /\ files' = IF ok THEN [files EXCEPT ![file] = File(out.s)] ELSE files
        /\ n_updates' = n_updates + 1
        /\ UNCHANGED <<owner, max_cache_size, accessed>>
        /\ UNCHANGED <<serializer_vars, datasheet_vars>>

NotParsed == [cache |-> cache, raised |-> FALSE, hit |-> FALSE, evicted |-> FALSE,
              result |-> EmptyList]

\* SymbolLocalizer.update_sym_lib_table(project_dir, symbol_lib_name, symbol_dir_name)
UpdateSymLibTable(symbol_lib_name, symbol_dir_name, write_ok) ==
    /\ owner = "SymbolLocalizer"
    /\ n_updates < MaxUpdates
    /\ LET f == files[SYM_LIB_TABLE_FILE]
           entry == sym_lib_entry(symbol_lib_name, symbol_dir_name)
       IN
       IF f.exists /\ already_listed(f.content, symbol_lib_name)
         THEN /\ last' = OpRecordNoParse("update_sym_lib_table", TRUE)
              /\ n_updates' = n_updates + 1
              /\ UNCHANGED <<owner, max_cache_size, cache, files, accessed>>
              /\ UNCHANGED <<serializer_vars, datasheet_vars>>
       ELSE IF f.exists
         THEN LET p == parse(cache, max_cache_size, f.content) IN
              FinishUpdate("update_sym_lib_table", SYM_LIB_TABLE_FILE, f.content,
                           TRUE, p, append_entry(p.result, entry), TRUE,
                           p.raised, write_ok)
       ELSE FinishUpdate("update_sym_lib_table", SYM_LIB_TABLE_FILE, "",
                         FALSE, NotParsed,
                         append_entry(List(<<Atom(SEXPR_SYM_LIB_TABLE)>>), entry),
                         FALSE, FALSE, write_ok)

\* LibraryManager.update_fp_lib_table(project_dir, lib_name)
UpdateFpLibTable(lib_name, write_ok) ==
    /\ owner = "LibraryManager"
    /\ n_updates < MaxUpdates
    /\ LET f == files[FP_LIB_TABLE_FILE]
           entry == fp_lib_entry(lib_name)
       IN
       IF f.exists
         THEN LET p == parse(cache, max_cache_size, f.content)
                  lib_scan == IF ~p.raised /\ IsList(p.result)
                                THEN fp_scan(p.result.l, 1, lib_name)
                                ELSE [raised |-> FALSE, found |-> FALSE, q |-> <<>>]
              IN  IF p.raised \/ lib_scan.raised
                    THEN FinishUpdate("update_fp_lib_table", FP_LIB_TABLE_FILE, f.content,
                                      TRUE, p, p.result, TRUE, TRUE, write_ok)
                  ELSE IF lib_scan.found
                    THEN FinishUpdate("update_fp_lib_table", FP_LIB_TABLE_FILE, f.content,
                                      TRUE, p, List(lib_scan.q), TRUE, FALSE, write_ok)
                  ELSE FinishUpdate("update_fp_lib_table", FP_LIB_TABLE_FILE, f.content,
                                    TRUE, p, append_entry(p.result, entry), TRUE,
                                    FALSE, write_ok)
       ELSE FinishUpdate("update_fp_lib_table", FP_LIB_TABLE_FILE, "",
                         FALSE, NotParsed,
                         append_entry(List(<<Atom(SEXPR_FP_LIB_TABLE)>>), entry),
                         FALSE, FALSE, write_ok)

\* SymbolLocalizer.write_symbol_library(lib_path, lib_name, symbol_contents, existing_symbols)
WriteSymbolLibrary(symbol_contents, write_ok) ==
    /\ owner = "SymbolLocalizer"
    /\ n_updates < MaxUpdates
    /\ LET f == files[SYMBOL_LIB_FILE] IN
       IF f.exists /\ Strip(f.content) # ""
         THEN LET p == parse(cache, max_cache_size, f.content)
                  valid == /\ ~p.raised
                           /\ IsList(p.result)
                           /\ Len(p.result.l) > 0
                           /\ p.result.l[1] = Atom(SEXPR_LIB_SYMBOLS)
              IN  IF valid
                    THEN FinishUpdate("write_symbol_library", SYMBOL_LIB_FILE, f.content,
                                      TRUE, p,
                                      List(append_all(p.result.l, symbol_contents, 1)),
                                      TRUE, FALSE, write_ok)
                    ELSE FinishUpdate("write_symbol_library", SYMBOL_LIB_FILE, f.content,
                                      TRUE, p,
                                      List(append_all(new_symbol_lib.l, symbol_contents, 1)),
                                      FALSE, p.raised, write_ok)
       ELSE FinishUpdate("write_symbol_library", SYMBOL_LIB_FILE, "",
                         FALSE, NotParsed,
                         List(append_all(new_symbol_lib.l, symbol_contents, 1)),
                         FALSE, FALSE, write_ok)

Next ==
    \/ \E text \in ParseTexts \cup FileContents : Parse(text)
    \/ ClearCache
    \/ \E write_ok \in BOOLEAN :
         UpdateSymLibTable(DEFAULT_SYMBOL_LIB_NAME, DEFAULT_SYMBOL_DIR_NAME, write_ok)
    \/ \E write_ok \in BOOLEAN : UpdateFpLibTable(DEFAULT_LOCAL_LIB_NAME, write_ok)
    \/ \E symbol_contents \in SymbolContents, write_ok \in BOOLEAN :
         WriteSymbolLibrary(symbol_contents, write_ok)

vars == <<parser_vars, serializer_vars, datasheet_vars>>

Spec == Init /\ [][Next]_vars

-----------------------------------------------------------------------------
(* One parser used through parse and clear_cache only *)

\* well-formed texts, one padded with whitespace, one with two top-level
\* expressions, a missing ')', an unterminated quoted string, a surplus ')'
\* at depth 0
CacheTexts ==
    {"(lib MyLib)", " (lib MyLib)\n", "(a (b \"c d\"))", "a (b)", "(a", "(a \"b", "(a))"}

NoFiles == [f \in {} |-> NoFile]

InitCache ==
    /\ SerializerIdle
    /\ DatasheetIdle
    /\ owner = "caller"
    /\ max_cache_size \in 0..MaxCacheSize
    /\ cache = <<>>
    /\ files = NoFiles
    /\ last = OpRecordNoParse("init", TRUE)
    /\ accessed = <<>>
    /\ n_updates = 0

NextCache ==
    \/ \E text \in CacheTexts : Parse(text)
    \/ ClearCache

SpecCache == InitCache /\ [][NextCache]_vars

\* a parse call that returns, recorded in the access history
ParseTracked(text) ==
    /\ ParseCall(text)
    /\ ~last'.raised
    /\ accessed' = Touch(accessed, Strip(text))

InitLRU ==
    /\ InitCache
    /\ max_cache_size >= 1

NextLRU == \E text \in CacheTexts : ParseTracked(text)

\* any sequence of successful parse calls on a parser with max_cache_size >= 1
SpecLRU == InitLRU /\ [][NextLRU]_vars

-----------------------------------------------------------------------------
(* The serializer round trip: parse, to_string, parse *)

\* the most tokens of an input text
MaxTokens == 5

\* the tokens the input texts are made of: parentheses, two list keywords
\* with a format of their own, a plain atom
Tokens == {"(", ")", "lib", "fp_lib_table", "MyLib"}

\* the texts of at most n tokens, separated by one space
RECURSIVE TokenTexts(_)
TokenTexts(n) ==
    IF n = 0 THEN {""}
    ELSE LET shorter == TokenTexts(n - 1) IN
         shorter \cup {t \o " " \o tok : t \in shorter, tok \in Tokens}

\* the parser is not used
ParserUnused ==
    /\ owner = "caller"
    /\ max_cache_size = 0
    /\ cache = <<>>
    /\ files = NoFiles
    /\ last = OpRecordNoParse("init", TRUE)
    /\ accessed = <<>>
    /\ n_updates = 0

InitSer ==
    /\ ser \in {[phase |-> "text", text |-> t, sexpr |-> EmptyList, out |-> "",
                 back |-> EmptyList] : t \in TokenTexts(MaxTokens)}
    /\ DatasheetIdle
    /\ ParserUnused

\* tree = parser.parse(text), on a parser that has not seen text
SerParse ==
    /\ ser.phase = "text"
    /\ LET r == parse_fresh(Strip(ser.text)) IN
       ser' = IF r.raised THEN [ser EXCEPT !.phase = "raised"]
              ELSE [ser EXCEPT !.phase = "tree", !.sexpr = r.tree]
    /\ UNCHANGED <<parser_vars, datasheet_vars>>

\* out = parser.to_string(tree)
SerToString ==
    /\ ser.phase = "tree"
    /\ LET r == to_string(ser.sexpr, 0) IN
       ser' = IF r.raised THEN [ser EXCEPT !.phase = "raised"]
              ELSE [ser EXCEPT !.phase = "string", !.out = r.s]
    /\ UNCHANGED <<parser_vars, datasheet_vars>>

\* back = parser.parse(out), on a parser that has not seen out
SerReparse ==
    /\ ser.phase = "string"
    /\ LET r == parse_fresh(Strip(ser.out)) IN
       ser' = IF r.raised THEN [ser EXCEPT !.phase = "raised"]
              ELSE [ser EXCEPT !.phase = "reparsed", !.back = r.tree]
    /\ UNCHANGED <<parser_vars, datasheet_vars>>

NextSer ==
    \/ SerParse
    \/ SerToString
    \/ SerReparse

SpecSer == InitSer /\ [][NextSer]_vars

\* C1: for every list tree T that parse returns, parse(to_string(T)) is
\* structurally equal to T, in particular for T = ['lib', 'MyLib'].
\* Violated: to_string writes the atoms of a lib list without a separator.
C1_RoundTrip ==
    (ser.phase = "reparsed" /\ IsList(ser.sexpr)) => ser.back = ser.sexpr

-----------------------------------------------------------------------------
(* DataSheetLocalizer: classification of datasheet values *)

\* a Python value handed to the classification: None or a str
None_ == [none |-> TRUE]
PyStr(str) == [s |-> str]
IsNone(v) == DOMAIN v = {"none"}

\* ref.startswith('http://') or ref.startswith('https://')
is_web_url(ref) == StartsWith(ref, "http://") \/ StartsWith(ref, "https://")

\* a classification that tests the extension before the ${KIPRJMOD} prefix
classify_datasheet_ref_reordered(value, seen_set) ==
    IF IsNone(value) \/ value.s = "" \/ value.s \in {"", "~"}
      THEN [verdict |-> "empty", seen |-> seen_set]
    ELSE IF ~is_web_url(value.s) /\ ~EndsWith(Lower(value.s), ".pdf")
      THEN [verdict |-> "non_pdf", seen |-> seen_set]
    ELSE IF StartsWith(value.s, "${" \o ENV_VAR_KIPRJMOD \o "}")
      THEN [verdict |-> "localised", seen |-> seen_set]
    ELSE IF value.s \in seen_set
      THEN [verdict |-> "duplicate", seen |-> seen_set]
    ELSE [verdict |-> "add", seen |-> seen_set \cup {value.s}]

\* a classification that forgets seen.add(value)
classify_datasheet_ref_no_add(value, seen_set) ==
    IF IsNone(value) \/ value.s = "" \/ value.s \in {"", "~"}
      THEN [verdict |-> "empty", seen |-> seen_set]
    ELSE IF StartsWith(value.s, "${" \o ENV_VAR_KIPRJMOD \o "}")
      THEN [verdict |-> "localised", seen |-> seen_set]
    ELSE IF ~is_web_url(value.s) /\ ~EndsWith(Lower(value.s), ".pdf")
      THEN [verdict |-> "non_pdf", seen |-> seen_set]
    ELSE IF value.s \in seen_set
      THEN [verdict |-> "duplicate", seen |-> seen_set]
    ELSE [verdict |-> "add", seen |-> seen_set]

\* a classification that records every value it lets past the first rule
classify_datasheet_ref_marks_all(value, seen_set) ==
    IF IsNone(value) \/ value.s = "" \/ value.s \in {"", "~"}
      THEN [verdict |-> "empty", seen |-> seen_set]
    ELSE IF StartsWith(value.s, "${" \o ENV_VAR_KIPRJMOD \o "}")
      THEN [verdict |-> "localised", seen |-> seen_set \cup {value.s}]
    ELSE IF ~is_web_url(value.s) /\ ~EndsWith(Lower(value.s), ".pdf")
      THEN [verdict |-> "non_pdf", seen |-> seen_set \cup {value.s}]
    ELSE IF value.s \in seen_set
      THEN [verdict |-> "duplicate", seen |-> seen_set]
    ELSE [verdict |-> "add", seen |-> seen_set \cup {value.s}]

\* _classify_datasheet_ref(value, seen): the verdict and the seen set after
\* the call (seen is changed in place on 'add')
classify_datasheet_ref(value, seen_set) ==
    IF IsNone(value) \/ value.s = "" \/ value.s \in {"", "~"}
      THEN [verdict |-> "empty", seen |-> seen_set]
    ELSE IF StartsWith(value.s, "${" \o ENV_VAR_KIPRJMOD \o "}")
      THEN [verdict |-> "localised", seen |-> seen_set]
    ELSE IF ~is_web_url(value.s) /\ ~EndsWith(Lower(value.s), ".pdf")
      THEN [verdict |-> "non_pdf", seen |-> seen_set]
    ELSE IF value.s \in seen_set
      THEN [verdict |-> "duplicate", seen |-> seen_set]
    ELSE [verdict |-> "add", seen |-> seen_set \cup {value.s}]

\* the record of one classification
Call(value, seen_before, verdict) ==
    [made |-> TRUE, value |-> value, seen_before |-> seen_before, verdict |-> verdict]

\* the values classified one at a time: None and every prefix, stem and
\* extension put together
ValuePrefixes == {"", "${KIPRJMOD}", "${KIPRJMOD}/", "http://", "https://", "HTTP://", "/"}
ValueStems == {"", "a", "~"}
ValueSuffixes == {"", ".pdf", ".PDF", ".Pdf", ".txt", ".pdf.txt"}
ClassifyValues ==
    {None_} \cup {PyStr(pre \o stem \o suf) :
                    pre \in ValuePrefixes, stem \in ValueStems, suf \in ValueSuffixes}

\* the seen sets a single classification starts from: every set of these
\* strings, accepted values and others
SeenPool == {"a.pdf", "http://a", "~", "${KIPRJMOD}/a.pdf", "a.txt"}

scan_idle ==
    [values |-> <<>>, pos |-> 0, verdicts |-> <<>>, datasheets |-> <<>>, call |-> NoCall]

InitClassify ==
    /\ ParserUnused
    /\ SerializerIdle
    /\ seen \in SUBSET SeenPool
    /\ scan = scan_idle
    /\ datasheet_map = <<>>
    /\ backups = <<>>
    /\ applied = <<>>
    /\ copy = [pc |-> "idle"]

\* one call of _classify_datasheet_ref(value, seen)
Classify(value) ==
    /\ ~scan.call.made
    /\ LET r == classify_datasheet_ref(value, seen) IN
       /\ seen' = r.seen
       /\ scan' = [scan EXCEPT !.call = Call(value, seen, r.verdict)]
    /\ UNCHANGED <<parser_vars, serializer_vars, datasheet_map, backups, applied, copy>>

NextClassify == \E value \in ClassifyValues : Classify(value)

SpecClassify == InitClassify /\ [][NextClassify]_vars

C17_SeenChangedOnlyOnAdd ==
    scan.call.made =>
      seen = IF scan.call.verdict = "add"
               THEN scan.call.seen_before \cup {scan.call.value.s}
               ELSE scan.call.seen_before

\* a URL was added to a seen set that held two other values
C17_Witness ==
    /\ scan.call.made
    /\ scan.call.verdict = "add"
    /\ scan.call.seen_before = {"a.pdf", "a.txt"}
    /\ seen = {"a.pdf", "a.txt", "http://a.pdf"}

-----------------------------------------------------------------------------
(* DataSheetLocalizer: one scan, classifying the values in file order *)

\* the most values one scan classifies
MaxValues == 3

\* the values a scanned file holds: placeholders, a localised path, a local
\* file that is no PDF, local PDFs, URLs
ScanValues ==
    {None_, PyStr(""), PyStr("~"), PyStr("${KIPRJMOD}/Data_Sheets/a.pdf"), PyStr("a.txt"),
     PyStr("a.pdf"), PyStr("A.PDF"), PyStr("http://x.com/a")}

\* the lists of at most n values
RECURSIVE ValueLists(_)
ValueLists(n) ==
    IF n = 0 THEN {<<>>}
    ELSE LET shorter == ValueLists(n - 1) IN
         shorter \cup {Append(q, v) : q \in shorter, v \in ScanValues}

InitScan ==
    /\ ParserUnused
    /\ SerializerIdle
    /\ seen = {}
    /\ scan \in {[scan_idle EXCEPT !.values = q] : q \in ValueLists(MaxValues)}
    /\ datasheet_map = <<>>
    /\ backups = <<>>
    /\ applied = <<>>
    /\ copy = [pc |-> "idle"]

\* one turn of the scan loop: the next value is classified against the
\* scan's seen set
ScanNext ==
    /\ scan.pos < Len(scan.values)
    /\ LET value == scan.values[scan.pos + 1]
           r == classify_datasheet_ref(value, seen)
       IN  /\ seen' = r.seen
           /\ scan' = [values |-> scan.values,
                       pos |-> scan.pos + 1,
                       verdicts |-> Append(scan.verdicts, r.verdict),
                       datasheets |-> IF r.verdict = "add"
                                        THEN Append(scan.datasheets, value.s)
                                        ELSE scan.datasheets,
                       call |-> Call(value, seen, r.verdict)]
    /\ UNCHANGED <<parser_vars, serializer_vars, datasheet_map, backups, applied, copy>>

NextScan == ScanNext

SpecScan == InitScan /\ [][NextScan]_vars

\* C5: scanning a list against an initially empty seen set gives 'add' to
\* exactly the first occurrence of each accepted value (non-empty, not
\* localised, a URL or a .pdf name) and 'duplicate' to every later one, and
\* seen is the set of accepted values scanned: a function of the values
\* alone, the same for every permutation of the list.
C5_FirstOccurrenceAdded ==
    LET accepted(v) ==
            /\ ~IsNone(v) /\ v.s # "" /\ v.s # "~"
            /\ ~StartsWith(v.s, "${KIPRJMOD}")
            /\ \/ StartsWith(v.s, "http://") \/ StartsWith(v.s, "https://")
               \/ \E p \in {"p", "P"}, d \in {"d", "D"}, f \in {"f", "F"} :
                     EndsWith(v.s, "." \o p \o d \o f)
        earlier(i) == \E j \in 1..(i - 1) : scan.values[j] = scan.values[i]
    IN  /\ Len(scan.verdicts) = scan.pos
        /\ \A i \in 1..scan.pos :
             /\ scan.verdicts[i] = "add" <=> accepted(scan.values[i]) /\ ~earlier(i)
             /\ scan.verdicts[i] = "duplicate" <=> accepted(scan.values[i]) /\ earlier(i)
        /\ seen = {scan.values[i].s : i \in {j \in 1..scan.pos : accepted(scan.values[j])}}

\* a scan came to its end having met an accepted value three times
C5_Witness ==
    /\ scan.pos = Len(scan.values)
    /\ scan.pos >= 3
    /\ scan.verdicts[1] = "add"
    /\ scan.verdicts[2] = "duplicate"
    /\ scan.verdicts[3] = "duplicate"

-----------------------------------------------------------------------------
(* DataSheetLocalizer: file names and new references *)

\* the default of DataSheetLocalizer's datasheet_dir
DATASHEET_DIR == "Data_Sheets"

\* the first index from i on of a character of cs in s, Len(s) + 1 if none
IndexOfAny(s, cs, i) ==
    LET hits == {j \in i..Len(s) : CharAt(s, j) \in cs} IN
    IF hits = {} THEN Len(s) + 1 ELSE MinOf(hits)

\* os.path.basename(path): what follows the last '/'
Basename(path) ==
    LET slashes == {j \in 1..Len(path) : CharAt(path, j) = "/"} IN
    IF slashes = {} THEN path ELSE SubSeq(path, MaxOf(slashes) + 1, Len(path))

\* urlparse(url).path for an http(s) URL: from the first '/' after the host
\* up to the query or fragment
UrlPath(url) ==
    LET host == FindFrom(url, "://", 1) + 3
        first == IndexOfAny(url, {"/", "?", "#"}, host)
    IN  IF first > Len(url) \/ CharAt(url, first) # "/" THEN ""
        ELSE SubSeq(url, first, IndexOfAny(url, {"?", "#"}, first) - 1)

\* unquote(path): the percent escapes decoded (%20 is the one the inputs use)
Unquote(path) == Replace(path, "%20", " ")

\* os.path.basename(unquote(parsed_url.path))
url_basename(url) == Basename(Unquote(UrlPath(url)))

\* a new reference without the project variable in front
new_ref_relative(filename) == DATASHEET_DIR \o "/" \o filename

\* new_ref = f"${{{ENV_VAR_KIPRJMOD}}}/{self.datasheet_dir}/{filename}"
new_ref(filename) == "${" \o ENV_VAR_KIPRJMOD \o "}/" \o DATASHEET_DIR \o "/" \o filename

-----------------------------------------------------------------------------
(* Rewriting the references of a file with a reference map *)

\* content.count(old): the occurrences of old in s from index i on, not
\* overlapping
RECURSIVE CountFrom(_, _, _)
CountFrom(s, old, i) ==
    LET j == FindFrom(s, old, i) IN
    IF j = 0 THEN 0 ELSE 1 + CountFrom(s, old, j + Len(old))

Count(s, old) == IF old = "" THEN Len(s) + 1 ELSE CountFrom(s, old, 1)

\* the replacement loop from pair k on: each old reference found in the
\* content as it is by then is replaced everywhere by its new reference
RECURSIVE replace_from(_, _, _, _)
replace_from(content, replacements, k, total_count) ==
    IF k > Len(replacements) THEN [count |-> total_count, new_content |-> content]
    ELSE LET old_ref == replacements[k][1]
             new == replacements[k][2]
         IN  IF Contains(content, old_ref)
               THEN replace_from(Replace(content, old_ref, new), replacements, k + 1,
                                 total_count + Count(content, old_ref))
               ELSE replace_from(content, replacements, k + 1, total_count)

\* BaseLocalizer.replace_references_in_content(content, replacements)
replace_references_in_content(content, replacements) ==
    replace_from(content, replacements, 1, 0)

\* the loop of _update_file_references over datasheet_map.items()
update_references(content, map) == replace_from(content, map, 1, 0)

\* the most entries of a reference map, references of a file, rewrites of
\* one behaviour
MaxMapSize == 2
MaxRefs == 2
MaxRewrites == 2

SCHEMATIC_FILE == "project.kicad_sch"

\* the references of the file: a URL, the same URL with a query, a bare file
\* name, an absolute path
RewriteRefs == {"http://x.com/a.pdf", "http://x.com/a.pdf?rev=2", "a.pdf", "/lib/b.pdf"}

\* the file name copy_datasheets gives a reference
ref_filename(ref) == IF is_web_url(ref) THEN url_basename(ref) ELSE Basename(ref)

\* the sequences of at most n distinct references
RECURSIVE RefLists(_, _)
RefLists(n, distinct) ==
    IF n = 0 THEN {<<>>}
    ELSE LET shorter == RefLists(n - 1, distinct) IN
         shorter \cup UNION {{Append(q, r) : r \in {x \in RewriteRefs :
                                   ~distinct \/ \A i \in 1..Len(q) : q[i] # x}} :
                              q \in shorter}

\* the reference maps: each key mapped to its new reference
RewriteMaps ==
    {[i \in 1..Len(q) |-> <<q[i], new_ref(ref_filename(q[i]))>>] :
       q \in RefLists(MaxMapSize, TRUE)}

\* a schematic with one Datasheet property for each reference
RECURSIVE Properties(_, _)
Properties(refs, k) ==
    IF k > Len(refs) THEN ""
    ELSE "\n  (property \"Datasheet\" \"" \o refs[k] \o "\")" \o Properties(refs, k + 1)

SchContent(refs) == "(kicad_sch" \o Properties(refs, 1) \o "\n)"

InitRewrite ==
    /\ SerializerIdle
    /\ owner = "DataSheetLocalizer"
    /\ max_cache_size = 0
    /\ cache = <<>>
    /\ files \in {[f \in {SCHEMATIC_FILE} |-> File(SchContent(refs))] :
                   refs \in RefLists(MaxRefs, FALSE)}
    /\ last = OpRecordNoParse("init", TRUE)
    /\ accessed = <<>>
    /\ n_updates = 0
    /\ seen = {}
    /\ scan = scan_idle
    /\ datasheet_map \in RewriteMaps
    /\ backups = <<>>
    /\ applied = <<>>
    /\ copy = [pc |-> "idle"]

\* the record of one rewrite: the content read, the content computed, and
\* whether it was written back
Rewrite(op, before, after, written) ==
    [op |-> op, before |-> before, after |-> after, written |-> written]

\* DataSheetLocalizer._update_file_references(file_path, datasheet_map, file_type);
\* backup_ok: create_backup copies the file (else it raises), write_ok:
\* open(file_path, 'w') and the write succeed
UpdateFileReferences(backup_ok, write_ok) ==
    /\ Len(applied) < MaxRewrites
    /\ LET content == files[SCHEMATIC_FILE].content
           r == update_references(content, datasheet_map)
           changed == r.new_content # content
           op == "_update_file_references"
       IN
       IF datasheet_map = <<>> \/ content = ""
         THEN /\ applied' = Append(applied, Rewrite(op, content, content, FALSE))
              /\ UNCHANGED <<files, backups>>
       ELSE IF ~changed
         THEN /\ applied' = Append(applied, Rewrite(op, content, r.new_content, FALSE))
              /\ UNCHANGED <<files, backups>>
       ELSE IF ~backup_ok
         THEN /\ applied' = Append(applied, Rewrite(op, content, r.new_content, FALSE))
              /\ UNCHANGED <<files, backups>>
       ELSE /\ backups' = Append(backups, content)
            /\ files' = IF write_ok
                          THEN [files EXCEPT ![SCHEMATIC_FILE] = File(r.new_content)]
                          ELSE files
            /\ applied' = Append(applied, Rewrite(op, content, r.new_content, write_ok))
    /\ UNCHANGED <<owner, max_cache_size, cache, last, accessed, n_updates>>
    /\ UNCHANGED <<serializer_vars, seen, scan, datasheet_map, copy>>

\* BaseLocalizer.update_schematic_file(sch_file, replacements, create_backup)
\* with the reference map as the replacements
UpdateSchematicFile(create_backup, backup_ok, write_ok) ==
    /\ Len(applied) < MaxRewrites
    /\ LET content == files[SCHEMATIC_FILE].content
           r == replace_references_in_content(content, datasheet_map)
           op == "update_schematic_file"
       IN
       IF create_backup /\ ~backup_ok
         THEN /\ applied' = Append(applied, Rewrite(op, content, content, FALSE))
              /\ UNCHANGED <<files, backups>>
       ELSE /\ backups' = IF create_backup THEN Append(backups, content) ELSE backups
            /\ files' = IF r.count > 0 /\ write_ok
                          THEN [files EXCEPT ![SCHEMATIC_FILE] = File(r.new_content)]
                          ELSE files
            /\ applied' = Append(applied, Rewrite(op, content, r.new_content,
                                                  r.count > 0 /\ write_ok))
    /\ UNCHANGED <<owner, max_cache_size, cache, last, accessed, n_updates>>
    /\ UNCHANGED <<serializer_vars, seen, scan, datasheet_map, copy>>

NextRewrite ==
    \/ \E backup_ok \in BOOLEAN, write_ok \in BOOLEAN :
         UpdateFileReferences(backup_ok, write_ok)
    \/ \E create_backup \in BOOLEAN, backup_ok \in BOOLEAN, write_ok \in BOOLEAN :
         UpdateSchematicFile(create_backup, backup_ok, write_ok)

SpecRewrite == InitRewrite /\ [][NextRewrite]_vars

\* the keys of the reference map
MapKeys == {datasheet_map[i][1] : i \in 1..Len(datasheet_map)}

\* C6: applying the same reference map a second time, to the content the
\* first application produced, changes nothing.
\* Violated: a new reference that contains its old reference is rewritten
\* again.
C6_RewriteIdempotent ==
    \A i \in 2..Len(applied) :
        (/\ applied[i - 1].written
         /\ applied[i].before = applied[i - 1].after
         /\ applied[i].written) => applied[i].after = applied[i].before

\* C7: a reference of the file that is no key of the reference map stands
\* unchanged, between its quotes, in the rewritten content.
\* Violated: a reference that contains a key of the map is rewritten in part.
C7_NonKeysUnchanged ==
    \A i \in 1..Len(applied) :
        \A ref \in RewriteRefs \ MapKeys :
            (applied[i].written /\ Contains(applied[i].before, "\"" \o ref \o "\""))
              => Contains(applied[i].after, "\"" \o ref \o "\"")

-----------------------------------------------------------------------------
(* DataSheetLocalizer.copy_datasheets *)

\* the most entries of the list handed to copy_datasheets
MaxDatasheets == 2

\* the component every reference of the list belongs to
COMP_NAME == "Device:R"

\* the references of the list: a URL of a PDF, a URL without an extension, a
\* local PDF of the same file name as the first, a local file that is no PDF
CopyRefs == {"http://x.com/a.pdf", "http://x.com/d?id=1", "/lib/a.pdf", "/lib/notes.txt"}

\* what the server answers to the HEAD request of _resolve_url_filename:
\* a Content-Type that is no PDF, a Content-Disposition file name, neither
\* (or no answer)
HeadAnswers ==
    {[kind |-> "not_pdf", cd_name |-> ""], [kind |-> "named", cd_name |-> "ds"],
     [kind |-> "named", cd_name |-> "ds.PDF"], [kind |-> "fallback", cd_name |-> ""]}

\* how the GET of download_datasheet ends: the file is written, urlopen
\* raises, or the read raises after the destination was opened for writing
GetAnswers == {"ok", "error", "truncated"}

\* the environment of one turn of the loop
CopyEnvs ==
    [head : HeadAnswers, remote_current : BOOLEAN, get : GetAnswers,
     src_exists : BOOLEAN, src_newer : BOOLEAN, copy_ok : BOOLEAN]

\* the environments that differ for a reference: a URL meets the server, a
\* local path the file system
CopyEnvsFor(datasheet_ref) ==
    IF is_web_url(datasheet_ref)
      THEN {env \in CopyEnvs : env.src_exists /\ env.src_newer /\ env.copy_ok}
      ELSE {env \in CopyEnvs : env.head.kind = "fallback" /\ env.remote_current
                                 /\ env.get = "ok"}

\* _resolve_url_filename(url, comp_name): the file name, "" standing for None
resolve_url_filename(comp_name, head) ==
    LET safe_name == Replace(Replace(Replace(comp_name, ":", "_"), "/", "_"), "\\", "_")
        fallback_filename == safe_name \o ".pdf"
    IN  IF head.kind = "not_pdf" THEN [none |-> TRUE, filename |-> ""]
        ELSE IF head.kind = "named" /\ head.cd_name # ""
          THEN [none |-> FALSE,
                filename |-> IF EndsWith(Lower(head.cd_name), ".pdf") THEN head.cd_name
                             ELSE head.cd_name \o ".pdf"]
        ELSE [none |-> FALSE, filename |-> fallback_filename]

\* _should_update_file(source_path, dest_path)
should_update_file(dest_exists, src_newer) == ~dest_exists \/ src_newer

\* download_datasheet(url, dest_path): what it returns and the directory after
download_datasheet(url, filename, dir, env) ==
    IF dir[filename].exists /\ env.remote_current
      THEN [ok |-> TRUE, dir |-> dir, outcome |-> "up_to_date"]
    ELSE IF env.get = "ok"
      THEN [ok |-> TRUE, dir |-> [dir EXCEPT ![filename] = File(url)],
            outcome |-> "downloaded"]
    ELSE IF env.get = "truncated"
      THEN [ok |-> FALSE, dir |-> [dir EXCEPT ![filename] = File("")],
            outcome |-> "download_failed"]
    ELSE [ok |-> FALSE, dir |-> dir, outcome |-> "download_failed"]

\* a loop body that maps a URL whatever download_datasheet returns
copy_one_unchecked(datasheet_ref, comp_name, dir, env) ==
    LET is_url == is_web_url(datasheet_ref)
        skipped == [mapped |-> FALSE, new_ref |-> "", dir |-> dir,
                    outcome |-> "skipped_non_pdf"]
    IN
    IF is_url
      THEN LET basename == url_basename(datasheet_ref)
               resolved == IF basename # "" /\ EndsWith(Lower(basename), ".pdf")
                             THEN [none |-> FALSE, filename |-> basename]
                             ELSE resolve_url_filename(comp_name, env.head)
           IN  IF resolved.none THEN skipped
               ELSE LET d == download_datasheet(datasheet_ref, resolved.filename, dir, env)
                    IN  [mapped |-> TRUE, new_ref |-> new_ref(resolved.filename),
                         dir |-> d.dir, outcome |-> d.outcome]
    ELSE IF ~EndsWith(Lower(datasheet_ref), ".pdf") THEN skipped
    ELSE LET filename == Basename(datasheet_ref) IN
         IF ~env.src_exists
           THEN [mapped |-> FALSE, new_ref |-> "", dir |-> dir, outcome |-> "source_missing"]
         ELSE IF dir[filename].exists
                 /\ ~should_update_file(dir[filename].exists, env.src_newer)
           THEN [mapped |-> TRUE, new_ref |-> new_ref(filename), dir |-> dir,
                 outcome |-> "up_to_date"]
         ELSE IF env.copy_ok
           THEN [mapped |-> TRUE, new_ref |-> new_ref(filename),
                 dir |-> [dir EXCEPT ![filename] = File(datasheet_ref)],
                 outcome |-> "copied"]
         ELSE [mapped |-> FALSE, new_ref |-> "", dir |-> dir, outcome |-> "copy_failed"]

\* one turn of the loop of copy_datasheets, for datasheet_ref: whether the
\* reference is mapped and to what, the directory after, and how the
\* transfer ended
copy_one(datasheet_ref, comp_name, dir, env) ==
    LET is_url == is_web_url(datasheet_ref)
        skipped == [mapped |-> FALSE, new_ref |-> "", dir |-> dir,
                    outcome |-> "skipped_non_pdf"]
    IN
    IF is_url
      THEN LET basename == url_basename(datasheet_ref)
               resolved == IF basename # "" /\ EndsWith(Lower(basename), ".pdf")
                             THEN [none |-> FALSE, filename |-> basename]
                             ELSE resolve_url_filename(comp_name, env.head)
           IN  IF resolved.none THEN skipped
               ELSE LET d == download_datasheet(datasheet_ref, resolved.filename, dir, env)
                    IN  [mapped |-> d.ok, new_ref |-> new_ref(resolved.filename),
                         dir |-> d.dir, outcome |-> d.outcome]
    ELSE IF ~EndsWith(Lower(datasheet_ref), ".pdf") THEN skipped
    ELSE LET filename == Basename(datasheet_ref) IN
         IF ~env.src_exists
           THEN [mapped |-> FALSE, new_ref |-> "", dir |-> dir, outcome |-> "source_missing"]
         ELSE IF dir[filename].exists
                 /\ ~should_update_file(dir[filename].exists, env.src_newer)
           THEN [mapped |-> TRUE, new_ref |-> new_ref(filename), dir |-> dir,
                 outcome |-> "up_to_date"]
         ELSE IF env.copy_ok
           THEN [mapped |-> TRUE, new_ref |-> new_ref(filename),
                 dir |-> [dir EXCEPT ![filename] = File(datasheet_ref)],
                 outcome |-> "copied"]
         ELSE [mapped |-> FALSE, new_ref |-> "", dir |-> dir, outcome |-> "copy_failed"]

\* unique_datasheets: the references of the list from entry k on, each once,
\* in first-seen order
RECURSIVE dedupe(_, _, _)
dedupe(datasheets, k, unique) ==
    IF k > Len(datasheets) THEN unique
    ELSE IF \E i \in 1..Len(unique) : unique[i] = datasheets[k][2]
      THEN dedupe(datasheets, k + 1, unique)
      ELSE dedupe(datasheets, k + 1, Append(unique, datasheets[k][2]))

\* datasheet_map[old] = new
map_put(map, old, new) ==
    IF \E i \in 1..Len(map) : map[i][1] = old
      THEN [i \in 1..Len(map) |-> IF map[i][1] = old THEN <<old, new>> ELSE map[i]]
      ELSE Append(map, <<old, new>>)

\* the lists of at most n (component, reference) entries
RECURSIVE DatasheetLists(_)
DatasheetLists(n) ==
    IF n = 0 THEN {<<>>}
    ELSE LET shorter == DatasheetLists(n - 1) IN
         shorter \cup {Append(q, <<COMP_NAME, r>>) : q \in shorter, r \in CopyRefs}

\* the file names the datasheet directory may hold
DestNames == {"a.pdf", "ds.pdf", "ds.PDF", "Device_R.pdf", "notes.txt", "d"}

InitCopy ==
    /\ SerializerIdle
    /\ owner = "DataSheetLocalizer"
    /\ max_cache_size = 0
    /\ cache = <<>>
    /\ files \in {[f \in DestNames |-> IF f \in present THEN File("old") ELSE NoFile] :
                   present \in {{}, {"a.pdf"}, {"a.pdf", "Device_R.pdf"}}}
    /\ last = OpRecordNoParse("init", TRUE)
    /\ accessed = <<>>
    /\ n_updates = 0
    /\ seen = {}
    /\ scan = scan_idle
    /\ datasheet_map = <<>>
    /\ backups = <<>>
    /\ applied = <<>>
    /\ copy \in {[pc |-> "start", datasheets |-> q, unique |-> <<>>, idx |-> 0,
                   outcome |-> <<>>, downloaded_count |-> 0, copied_count |-> 0] :
                  q \in DatasheetLists(MaxDatasheets)}

\* copy_datasheets up to its loop: the directory is there, the list is
\* deduplicated, the map is empty
CopyStart ==
    /\ copy.pc = "start"
    /\ copy' = [copy EXCEPT !.pc = "loop", !.unique = dedupe(copy.datasheets, 1, <<>>),
                             !.idx = 1]
    /\ datasheet_map' = <<>>
    /\ UNCHANGED <<parser_vars, serializer_vars, seen, scan, backups, applied>>

\* one turn of the loop over unique_datasheets
CopyStep(env) ==
    /\ copy.pc = "loop"
    /\ copy.idx <= Len(copy.unique)
    /\ env \in CopyEnvsFor(copy.unique[copy.idx])
    /\ LET datasheet_ref == copy.unique[copy.idx]
           r == copy_one(datasheet_ref, COMP_NAME, files, env)
           url == is_web_url(datasheet_ref)
       IN  /\ files' = r.dir
           /\ datasheet_map' = IF r.mapped THEN map_put(datasheet_map, datasheet_ref, r.new_ref)
                                ELSE datasheet_map
           /\ copy' = [copy EXCEPT
                         !.idx = copy.idx + 1,
                         !.outcome = Append(copy.outcome, r.outcome),
                         !.downloaded_count = IF r.mapped /\ url THEN @ + 1 ELSE @,
                         !.copied_count = IF r.mapped /\ ~url THEN @ + 1 ELSE @]
    /\ UNCHANGED <<owner, max_cache_size, cache, last, accessed, n_updates>>
    /\ UNCHANGED <<serializer_vars, seen, scan, backups, applied>>

\* return (downloaded_count, copied_count, datasheet_map)
CopyReturn ==
    /\ copy.pc = "loop"
    /\ copy.idx > Len(copy.unique)
    /\ copy' = [copy EXCEPT !.pc = "returned"]
    /\ UNCHANGED <<parser_vars, serializer_vars, seen, scan, datasheet_map, backups, applied>>

NextCopy ==
    \/ CopyStart
    \/ \E env \in CopyEnvs : CopyStep(env)
    \/ CopyReturn

SpecCopy == InitCopy /\ [][NextCopy]_vars

\* C10: when copy_datasheets has returned, a reference of the list is a key
\* of the reference map if and only if it was downloaded, copied, or found
\* up to date at its destination during the call; a reference skipped as
\* non-PDF, missing at its source, or whose transfer failed is no key, and
\* the map has no other keys.
C10_KeysAreTransferred ==
    copy.pc = "returned" =>
      /\ Len(copy.outcome) = Len(copy.unique)
      /\ \A i \in 1..Len(copy.unique) :
           copy.unique[i] \in MapKeys
             <=> copy.outcome[i] \in {"downloaded", "copied", "up_to_date"}
      /\ MapKeys \subseteq {copy.unique[i] : i \in 1..Len(copy.unique)}

\* a call returned after one transfer that succeeded and one that failed
C10_Witness ==
    /\ copy.pc = "returned"
    /\ Len(copy.unique) = 2
    /\ copy.outcome[1] = "download_failed"
    /\ copy.outcome[2] = "copied"
    /\ Len(datasheet_map) = 1

-----------------------------------------------------------------------------
(* DataSheetLocalizer: the scans of a symbol library and of a schematic *)

\* the state of a scan: the AttributeError a malformed tree raises (caught
\* by the scan, which then returns what it has), the scan's seen set and
\* the (name, reference) entries found so far
ScanState(raised, seen_datasheets, datasheets) ==
    [raised |-> raised, seen |-> seen_datasheets, datasheets |-> datasheets]

\* the loop of scan_symbol_datasheets over the sub-items of one symbol, from
\* sub-item j on
RECURSIVE scan_sub_items(_, _, _, _)
scan_sub_items(item, j, symbol_name, st) ==
    IF st.raised \/ j > Len(item) THEN st
    ELSE
      LET sub_item == item[j] IN
      IF ~(IsList(sub_item) /\ Len(sub_item.l) >= 3)
        THEN scan_sub_items(item, j + 1, symbol_name, st)
      ELSE
        LET q == sub_item.l
            is_datasheet == /\ q[1] = Atom("property")
                            /\ IsAtom(q[2])
                            /\ StripChar(q[2].a, "\"") = "Datasheet"
        IN
        IF ~is_datasheet THEN scan_sub_items(item, j + 1, symbol_name, st)
        ELSE IF IsList(q[3])
          THEN IF Len(q[3].l) = 0
                 THEN scan_sub_items(item, j + 1, symbol_name, st)
                 ELSE [st EXCEPT !.raised = TRUE]
        ELSE
          LET prop_value == StripChar(q[3].a, "\"")
              r == classify_datasheet_ref(PyStr(prop_value), st.seen)
          IN  scan_sub_items(item, j + 1, symbol_name,
                ScanState(FALSE, r.seen,
                          IF r.verdict = "add"
                            THEN Append(st.datasheets, <<symbol_name, prop_value>>)
                            ELSE st.datasheets))

\* the loop of scan_symbol_datasheets over the items of the parsed library,
\* from item k on
RECURSIVE scan_symbols(_, _, _)
scan_symbols(parsed, k, st) ==
    IF st.raised \/ k > Len(parsed) THEN st
    ELSE
      LET item == parsed[k] IN
      IF ~(IsList(item) /\ Len(item.l) > 0 /\ item.l[1] = Atom(SEXPR_SYMBOL))
        THEN scan_symbols(parsed, k + 1, st)
      ELSE IF Len(item.l) > 1 /\ IsList(item.l[2])
        THEN [st EXCEPT !.raised = TRUE]
      ELSE
        LET symbol_name == IF Len(item.l) > 1 THEN StripChar(item.l[2].a, "\"")
                           ELSE "unknown"
        IN  scan_symbols(parsed, k + 1, scan_sub_items(item.l, 1, symbol_name, st))

\* scan_symbol_datasheets(symbol_lib_path) on the content read: the list of
\* (symbol_name, datasheet_ref) it returns.  An atom for the whole library is
\* a str, whose characters are no lists.
scan_symbol_datasheets(content) ==
    IF content = "" THEN <<>>
    ELSE
      LET p == parse_fresh(Strip(content)) IN
      IF p.raised \/ ~IsList(p.tree) \/ Len(p.tree.l) = 0 THEN <<>>
      ELSE scan_symbols(p.tree.l, 1, ScanState(FALSE, {}, <<>>)).datasheets

\* the end of the run of whitespace that starts at index i (i itself when
\* there is none): \s+ of the pattern
skip_whitespace(s, i) ==
    LET stops == {j \in i..Len(s) : ~IsSpace(CharAt(s, j))} IN
    IF stops = {} THEN Len(s) + 1 ELSE MinOf(stops)

\* p occurs in s at index i
OccursAt(s, p, i) == i >= 1 /\ i + Len(p) - 1 <= Len(s) /\ SubSeq(s, i, i + Len(p) - 1) = p

\* a match of \(property\s+"Datasheet"\s+"([^"]+)" that starts at index i:
\* the group and the index of the closing quote
datasheet_match(s, i) ==
    LET no == [matched |-> FALSE, value |-> "", end |-> i]
        a == i + Len("(property")
        b == skip_whitespace(s, a)
        c == b + Len("\"Datasheet\"")
        d == skip_whitespace(s, c)
        e == FindFrom(s, "\"", d + 1)
    IN  IF ~OccursAt(s, "(property", i) \/ b = a THEN no
        ELSE IF ~OccursAt(s, "\"Datasheet\"", b) \/ d = c THEN no
        ELSE IF ~OccursAt(s, "\"", d) \/ e = 0 \/ e = d + 1 THEN no
        ELSE [matched |-> TRUE, value |-> SubSeq(s, d + 1, e - 1), end |-> e]

\* pattern.findall(content) from index i on: the groups of the matches, left
\* to right, not overlapping
RECURSIVE findall_datasheets(_, _)
findall_datasheets(s, i) ==
    LET k == FindFrom(s, "(property", i) IN
    IF k = 0 THEN <<>>
    ELSE LET m == datasheet_match(s, k) IN
         IF m.matched THEN <<m.value>> \o findall_datasheets(s, m.end + 1)
         ELSE findall_datasheets(s, k + 1)

\* the loop of scan_schematic_datasheets over the matches, from match k on
RECURSIVE scan_matches(_, _, _)
scan_matches(matches, k, st) ==
    IF k > Len(matches) THEN st
    ELSE LET r == classify_datasheet_ref(PyStr(matches[k]), st.seen) IN
         scan_matches(matches, k + 1,
           ScanState(FALSE, r.seen,
                     IF r.verdict = "add"
                       THEN Append(st.datasheets, <<"schematic", matches[k]>>)
                       ELSE st.datasheets))

\* scan_schematic_datasheets(schematic_path) on the content read
scan_schematic_datasheets(content) ==
    IF content = "" THEN <<>>
    ELSE scan_matches(findall_datasheets(content, 1), 1,
                      ScanState(FALSE, {}, <<>>)).datasheets

-----------------------------------------------------------------------------
(* DataSheetLocalizer.localize_all_datasheets *)

EXTRA_SYMBOL_LIB_FILE == "Extra.kicad_sym"

\* the arguments of the run
LocalizeSymbolLibs == <<SYMBOL_LIB_FILE, EXTRA_SYMBOL_LIB_FILE>>
LocalizeSchematics == <<SCHEMATIC_FILE>>

\* the files of the datasheet directory, by file name
LocalizeDestNames == {"a.pdf", "b.pdf"}

\* a symbol library with one symbol and Datasheet property for each entry
RECURSIVE Symbols(_, _)
Symbols(entries, k) ==
    IF k > Len(entries) THEN ""
    ELSE "\n  (symbol \"" \o entries[k][1] \o "\" (property \"Datasheet\" \""
           \o entries[k][2] \o "\"))" \o Symbols(entries, k + 1)

SymContent(entries) == "(kicad_symbol_lib" \o Symbols(entries, 1) \o "\n)"

\* what a symbol library of the project may hold: nothing to fetch, a URL
\* named by two symbols, a URL and a local PDF
LocalizeSymbolLibContents ==
    {NoFile,
     File(SymContent(<< <<"R", "~">> >>)),
     File(SymContent(<< <<"R", "http://x.com/a.pdf">>, <<"C", "http://x.com/a.pdf">> >>)),
     File(SymContent(<< <<"D", "/lib/b.pdf">>, <<"C", "http://x.com/a.pdf">> >>))}

\* what the schematic may hold: a URL twice, a local PDF and a URL, a
\* reference localised by an earlier run and a URL
LocalizeSchematicContents ==
    {NoFile,
     File(SchContent(<<"http://x.com/a.pdf", "http://x.com/a.pdf">>)),
     File(SchContent(<<"/lib/b.pdf", "http://x.com/a.pdf">>)),
     File(SchContent(<<"${KIPRJMOD}/Data_Sheets/a.pdf", "http://x.com/a.pdf">>))}

\* _add_unique(entries), from entry k on: the combined list and seen set after
RECURSIVE add_unique(_, _, _, _)
add_unique(entries, k, all_datasheets, seen_in_combined) ==
    IF k > Len(entries)
      THEN [all_datasheets |-> all_datasheets, seen_in_combined |-> seen_in_combined]
    ELSE IF entries[k][2] \in seen_in_combined
      THEN add_unique(entries, k + 1, all_datasheets, seen_in_combined)
      ELSE add_unique(entries, k + 1, Append(all_datasheets, entries[k]),
                      seen_in_combined \cup {entries[k][2]})

\* unique_datasheets[datasheet_ref]: the component of the first entry of the
\* list that names the reference
first_comp_name(datasheets, datasheet_ref) ==
    datasheets[MinOf({k \in 1..Len(datasheets) : datasheets[k][2] = datasheet_ref})][1]

\* _update_file_references(file_path, datasheet_map, file_type) on the files
\* fs and the backups bk; raised is the exception of create_backup, which
\* the function lets through
update_file_references(file_path, fs, bk, map, backup_ok, write_ok) ==
    LET content == fs[file_path].content
        r == update_references(content, map)
        same == [files |-> fs, backups |-> bk, raised |-> FALSE]
    IN  IF map = <<>> \/ content = "" \/ r.new_content = content THEN same
        ELSE IF ~backup_ok THEN [same EXCEPT !.raised = TRUE]
        ELSE [files |-> IF write_ok THEN [fs EXCEPT ![file_path] = File(r.new_content)]
                        ELSE fs,
              backups |-> Append(bk, content),
              raised |-> FALSE]

InitLocalize ==
    /\ SerializerIdle
    /\ owner = "DataSheetLocalizer"
    /\ max_cache_size = 0
    /\ cache = <<>>
    /\ files \in {[f \in {SYMBOL_LIB_FILE, EXTRA_SYMBOL_LIB_FILE, SCHEMATIC_FILE}
                         \cup LocalizeDestNames |->
                     IF f = SYMBOL_LIB_FILE THEN l1
                     ELSE IF f = EXTRA_SYMBOL_LIB_FILE THEN l2
                     ELSE IF f = SCHEMATIC_FILE THEN sch
                     ELSE NoFile] :
                   l1 \in LocalizeSymbolLibContents, l2 \in LocalizeSymbolLibContents,
                   sch \in LocalizeSchematicContents}
    /\ last = OpRecordNoParse("init", TRUE)
    /\ accessed = <<>>
    /\ n_updates = 0
    /\ seen = {}
    /\ scan = scan_idle
    /\ datasheet_map = <<>>
    /\ backups = <<>>
    /\ applied = <<>>
    /\ copy = [pc |-> "scan", symbol_libs |-> LocalizeSymbolLibs,
               schematic_files |-> LocalizeSchematics, idx |-> 1,
               all_datasheets |-> <<>>, seen_in_combined |-> {}, unique |-> <<>>,
               handed |-> <<>>, outcome |-> <<>>, downloaded_count |-> 0,
               copied_count |-> 0]

\* the files of the run in the order it visits them
LocalizeFiles == copy.symbol_libs \o copy.schematic_files

\* one turn of the scanning loops: the next symbol library, or once they are
\* done the next schematic, is scanned if it exists and its entries are
\* added to the combined list
LocalizeScan ==
    /\ copy.pc = "scan"
    /\ copy.idx <= Len(LocalizeFiles)
    /\ LET f == files[LocalizeFiles[copy.idx]]
           found == IF ~f.exists THEN <<>>
                    ELSE IF copy.idx <= Len(copy.symbol_libs)
                      THEN scan_symbol_datasheets(f.content)
                      ELSE scan_schematic_datasheets(f.content)
           u == add_unique(found, 1, copy.all_datasheets, copy.seen_in_combined)
       IN  copy' = [copy EXCEPT !.idx = @ + 1, !.all_datasheets = u.all_datasheets,
                                !.seen_in_combined = u.seen_in_combined]
    /\ UNCHANGED <<parser_vars, serializer_vars, seen, scan, datasheet_map, backups, applied>>

\* copy_datasheets(all_datasheets) up to its loop
LocalizeCopyStart ==
    /\ copy.pc = "scan"
    /\ copy.idx > Len(LocalizeFiles)
    /\ copy' = [copy EXCEPT !.pc = "loop", !.idx = 1,
                             !.unique = dedupe(copy.all_datasheets, 1, <<>>)]
    /\ datasheet_map' = <<>>
    /\ UNCHANGED <<parser_vars, serializer_vars, seen, scan, backups, applied>>

\* a loop that tries a failed download again
LocalizeCopyStepRetry(env) ==
    /\ copy.pc = "loop"
    /\ copy.idx <= Len(copy.unique)
    /\ env \in CopyEnvsFor(copy.unique[copy.idx])
    /\ LET datasheet_ref == copy.unique[copy.idx]
           comp_name == first_comp_name(copy.all_datasheets, datasheet_ref)
           r == copy_one(datasheet_ref, comp_name, files, env)
           url == is_web_url(datasheet_ref)
       IN  /\ files' = r.dir
           /\ datasheet_map' = IF r.mapped THEN map_put(datasheet_map, datasheet_ref, r.new_ref)
                                ELSE datasheet_map
           /\ copy' = [copy EXCEPT
                         !.idx = IF r.outcome = "download_failed" THEN @ ELSE @ + 1,
                         !.handed = Append(@, datasheet_ref),
                         !.outcome = Append(@, r.outcome),
                         !.downloaded_count = IF r.mapped /\ url THEN @ + 1 ELSE @,
                         !.copied_count = IF r.mapped /\ ~url THEN @ + 1 ELSE @]
    /\ UNCHANGED <<owner, max_cache_size, cache, last, accessed, n_updates>>
    /\ UNCHANGED <<serializer_vars, seen, scan, backups, applied>>

\* one turn of the loop of copy_datasheets: the reference is handed to the
\* download or the copy
LocalizeCopyStep(env) ==
    /\ copy.pc = "loop"
    /\ copy.idx <= Len(copy.unique)
    /\ env \in CopyEnvsFor(copy.unique[copy.idx])
    /\ LET datasheet_ref == copy.unique[copy.idx]
           comp_name == first_comp_name(copy.all_datasheets, datasheet_ref)
           r == copy_one(datasheet_ref, comp_name, files, env)
           url == is_web_url(datasheet_ref)
       IN  /\ files' = r.dir
           /\ datasheet_map' = IF r.mapped THEN map_put(datasheet_map, datasheet_ref, r.new_ref)
                                ELSE datasheet_map
           /\ copy' = [copy EXCEPT
                         !.idx = @ + 1,
                         !.handed = Append(@, datasheet_ref),
                         !.outcome = Append(@, r.outcome),
                         !.downloaded_count = IF r.mapped /\ url THEN @ + 1 ELSE @,
                         !.copied_count = IF r.mapped /\ ~url THEN @ + 1 ELSE @]
    /\ UNCHANGED <<owner, max_cache_size, cache, last, accessed, n_updates>>
    /\ UNCHANGED <<serializer_vars, seen, scan, backups, applied>>

\* copy_datasheets returns; with an empty map the run ends here
LocalizeCopyReturn ==
    /\ copy.pc = "loop"
    /\ copy.idx > Len(copy.unique)
    /\ copy' = [copy EXCEPT !.pc = IF datasheet_map = <<>> THEN "returned" ELSE "update",
                             !.idx = 1]
    /\ UNCHANGED <<parser_vars, serializer_vars, seen, scan, datasheet_map, backups, applied>>

\* one turn of the updating loops: the references of the next symbol
\* library, or once they are done of the next schematic, are rewritten
LocalizeUpdate(backup_ok, write_ok) ==
    /\ copy.pc = "update"
    /\ copy.idx <= Len(LocalizeFiles)
    /\ LET file_path == LocalizeFiles[copy.idx]
           r == IF files[file_path].exists
                  THEN update_file_references(file_path, files, backups, datasheet_map,
                                              backup_ok, write_ok)
                  ELSE [files |-> files, backups |-> backups, raised |-> FALSE]
       IN  /\ files' = r.files
           /\ backups' = r.backups
           /\ copy' = IF r.raised THEN [copy EXCEPT !.pc = "raised"]
                      ELSE [copy EXCEPT !.idx = @ + 1]
    /\ UNCHANGED <<owner, max_cache_size, cache, last, accessed, n_updates>>
    /\ UNCHANGED <<serializer_vars, seen, scan, datasheet_map, applied>>

\* return (total_datasheets, total_updated)
LocalizeReturn ==
    /\ copy.pc = "update"
    /\ copy.idx > Len(LocalizeFiles)
    /\ copy' = [copy EXCEPT !.pc = "returned"]
    /\ UNCHANGED <<parser_vars, serializer_vars, seen, scan, datasheet_map, backups, applied>>

NextLocalize ==
    \/ LocalizeScan
    \/ LocalizeCopyStart
    \/ \E env \in CopyEnvs : LocalizeCopyStep(env)
    \/ LocalizeCopyReturn
    \/ \E backup_ok \in BOOLEAN, write_ok \in BOOLEAN : LocalizeUpdate(backup_ok, write_ok)
    \/ LocalizeReturn

SpecLocalize == InitLocalize /\ [][NextLocalize]_vars

\* C11: in one localize_all_datasheets run each distinct reference string is
\* handed to the download / copy step at most once, however many symbol
\* libraries and schematics hold it and whichever components name it.
C11_HandedAtMostOnce ==
    copy.pc # "idle" =>
      \A i \in 1..Len(copy.handed) : \A j \in 1..Len(copy.handed) :
          copy.handed[i] = copy.handed[j] => i = j

\* a reference held by a symbol library (twice) and by the schematic was
\* handed over, and so was a second reference, by the end of a run
C11_Witness ==
    /\ copy.pc = "returned"
    /\ Len(copy.handed) = 2
    /\ Contains(files[SCHEMATIC_FILE].content, "a.pdf")
    /\ files[SYMBOL_LIB_FILE].exists
    /\ Contains(files[SYMBOL_LIB_FILE].content, "(symbol \"C\"")
    /\ Contains(files[SYMBOL_LIB_FILE].content, "(symbol \"R\"")

-----------------------------------------------------------------------------
(* The serializer on the trees parse returns: to_string, parse, to_string *)

\* the deepest nesting and the most children of a list of the trees
MaxDepth == 3
MaxWidth == 2

\* the sequences of at most n elements of S
SeqsUpTo(S, n) == UNION {[1..k -> S] : k \in 0..n}

\* the atoms over atoms and the lists of at most MaxWidth children nested at
\* most d deep; each is what parse returns for its compact text
RECURSIVE TreesOfDepth(_, _)
TreesOfDepth(atoms, d) ==
    IF d = 0 THEN {Atom(a) : a \in atoms}
    ELSE LET sub == TreesOfDepth(atoms, d - 1) IN
         sub \cup {List(q) : q \in SeqsUpTo(sub, MaxWidth)}

\* deep trees under the symbol keyword, shallower ones under the keywords of
\* the other formats
LayoutTrees ==
    TreesOfDepth({SEXPR_SYMBOL, "a"}, MaxDepth)
      \cup TreesOfDepth({SEXPR_LIB_SYMBOLS, SEXPR_FP_LIB_TABLE, SEXPR_LIB, "a"}, MaxDepth - 1)

InitLayout ==
    /\ ser \in {[phase |-> "tree", sexpr |-> t, out |-> "", back |-> EmptyList,
                 again |-> "", raised |-> ""] : t \in LayoutTrees}
    /\ DatasheetIdle
    /\ ParserUnused

\* out = parser.to_string(tree)
LayoutToString ==
    /\ ser.phase = "tree"
    /\ LET r == to_string(ser.sexpr, 0) IN
       ser' = IF r.raised THEN [ser EXCEPT !.phase = "raised", !.raised = "to_string"]
              ELSE [ser EXCEPT !.phase = "string", !.out = r.s]
    /\ UNCHANGED <<parser_vars, datasheet_vars>>

\* back = parser.parse(out), on a parser that has not seen out
LayoutParse ==
    /\ ser.phase = "string"
    /\ LET r == parse_fresh(Strip(ser.out)) IN
       ser' = IF r.raised THEN [ser EXCEPT !.phase = "raised", !.raised = "parse"]
              ELSE [ser EXCEPT !.phase = "reparsed", !.back = r.tree]
    /\ UNCHANGED <<parser_vars, datasheet_vars>>

\* again = parser.to_string(back)
LayoutToStringAgain ==
    /\ ser.phase = "reparsed"
    /\ LET r == to_string(ser.back, 0) IN
       ser' = IF r.raised THEN [ser EXCEPT !.phase = "raised", !.raised = "to_string"]
              ELSE [ser EXCEPT !.phase = "restrung", !.again = r.s]
    /\ UNCHANGED <<parser_vars, datasheet_vars>>

NextLayout ==
    \/ LayoutToString
    \/ LayoutParse
    \/ LayoutToStringAgain

SpecLayout == InitLayout /\ [][NextLayout]_vars

\* C13: the layout is stable: for every list tree T that parse can return,
\* to_string(parse(to_string(T))) is the same text as to_string(T), also
\* under the keywords kicad_symbol_lib, symbol, fp_lib_table and lib.
\* Violated: the formats of an atom child of kicad_symbol_lib, of an empty
\* list under symbol and of the children of lib do not parse back to the
\* tree they were written from.
C13_LayoutStable ==
    (ser.phase = "restrung" /\ IsList(ser.sexpr)) => ser.again = ser.out

\* C14: to_string is total: for every tree that parse can return, a list
\* whose first element is a list nested under symbol or kicad_symbol_lib
\* included, it returns a string and does not raise, and an atom is returned
\* verbatim.
\* Violated: _format_symbol tests the list that stands first for membership
\* in a set.
C14_ToStringTotal ==
    /\ ser.raised # "to_string"
    /\ (ser.phase = "string" /\ IsAtom(ser.sexpr)) => ser.out = ser.sexpr.a

-----------------------------------------------------------------------------
(* parse on every short text over parentheses, whitespace, a letter, the   *)
(* quote and the backslash                                                  *)

\* the longest text
MaxTextLen == 6

\* the characters of the texts
TextChars == {"(", ")", " ", "a", "\"", "\\"}

\* the texts of at most n characters
RECURSIVE TextsUpTo(_)
TextsUpTo(n) ==
    IF n = 0 THEN {""}
    ELSE LET shorter == TextsUpTo(n - 1) IN
         shorter \cup {t \o c : t \in shorter, c \in TextChars}

InitParse ==
    /\ ser \in {[phase |-> "text", text |-> t, sexpr |-> EmptyList, raised |-> FALSE] :
                  t \in TextsUpTo(MaxTextLen)}
    /\ DatasheetIdle
    /\ ParserUnused

\* tree = parser.parse(text), on a parser that has not seen text
ParseText ==
    /\ ser.phase = "text"
    /\ LET r == parse_fresh(Strip(ser.text)) IN
       ser' = IF r.raised THEN [ser EXCEPT !.phase = "raised", !.raised = TRUE]
              ELSE [ser EXCEPT !.phase = "tree", !.sexpr = r.tree]
    /\ UNCHANGED <<parser_vars, datasheet_vars>>

NextParse == ParseText

SpecParse == InitParse /\ [][NextParse]_vars

(* The grammar the texts are read by: what each character is, the tokens,   *)
(* the nesting.  A backslash inside a quoted string escapes the character   *)
(* after it; a quote toggles the string unless an unescaped backslash       *)
(* stands right before it.                                                  *)

\* what the characters from index i on are ("(", ")", "space" or "atom"),
\* and whether the text ends inside a quoted string
RECURSIVE GrammarMarks(_, _, _, _)
GrammarMarks(text, i, in_string, escaped) ==
    IF i > Len(text) THEN [marks |-> <<>>, open_string |-> in_string]
    ELSE
      LET c == CharAt(text, i)
          after_backslash == i > 1 /\ CharAt(text, i - 1) = "\\"
          toggles == ~escaped /\ c = "\"" /\ ~(~in_string /\ after_backslash)
          kind == IF escaped \/ in_string \/ c = "\"" THEN "atom"
                  ELSE IF c \in {"(", ")"} THEN c
                  ELSE IF IsSpace(c) THEN "space"
                  ELSE "atom"
          rest == GrammarMarks(text, i + 1,
                               IF toggles THEN ~in_string ELSE in_string,
                               ~escaped /\ in_string /\ c = "\\")
      IN  [marks |-> <<kind>> \o rest.marks, open_string |-> rest.open_string]

\* the tokens from index i on: a parenthesis, or an atom, a longest run of
\* atom characters, with the index of its last character
RECURSIVE GrammarTokens(_, _, _)
GrammarTokens(text, marks, i) ==
    IF i > Len(text) THEN <<>>
    ELSE IF marks[i] = "space" THEN GrammarTokens(text, marks, i + 1)
    ELSE IF marks[i] \in {"(", ")"}
      THEN <<[kind |-> marks[i], s |-> marks[i], end |-> i]>>
             \o GrammarTokens(text, marks, i + 1)
    ELSE LET stops == {j \in i..Len(text) : marks[j] # "atom"}
             j == IF stops = {} THEN Len(text) ELSE MinOf(stops) - 1
         IN  <<[kind |-> "atom", s |-> SubSeq(text, i, j), end |-> j]>>
               \o GrammarTokens(text, marks, j + 1)

TokensOf(text) == GrammarTokens(text, GrammarMarks(text, 1, FALSE, FALSE).marks, 1)

\* the nesting depth after the first k tokens
RECURSIVE DepthAfter(_, _)
DepthAfter(tokens, k) ==
    IF k = 0 THEN 0
    ELSE DepthAfter(tokens, k - 1)
           + (IF tokens[k].kind = "(" THEN 1 ELSE IF tokens[k].kind = ")" THEN -1 ELSE 0)

\* the elements read from token i on up to the ')' that closes the list they
\* are in (or the end of the tokens), and the index of that ')'
RECURSIVE GrammarItems(_, _)
GrammarItems(tokens, i) ==
    IF i > Len(tokens) \/ tokens[i].kind = ")" THEN [items |-> <<>>, next |-> i]
    ELSE IF tokens[i].kind = "atom"
      THEN LET r == GrammarItems(tokens, i + 1) IN
           [items |-> <<Atom(tokens[i].s)>> \o r.items, next |-> r.next]
    ELSE LET inner == GrammarItems(tokens, i + 1)
             r == GrammarItems(tokens, inner.next + 1)
         IN  [items |-> <<List(inner.items)>> \o r.items, next |-> r.next]

\* balanced parentheses, every quoted string terminated, one top-level list
WellFormed(text) ==
    LET tokens == TokensOf(text)
        n == Len(tokens)
    IN  /\ ~GrammarMarks(text, 1, FALSE, FALSE).open_string
        /\ n >= 2
        /\ tokens[1].kind = "("
        /\ \A k \in 1..(n - 1) : DepthAfter(tokens, k) >= 1
        /\ DepthAfter(tokens, n) = 0

\* C15: for every well-formed text parse returns the tree whose lists nest
\* as the parentheses outside quoted strings do and whose atoms are the
\* longest runs of characters between whitespace and parentheses outside
\* quoted strings, a quoted string with the parentheses and whitespace in
\* it being part of one atom that keeps its quotes.
\* Violated: a quote that follows an escaped backslash does not end the
\* string.
C15_ParseWellFormed ==
    (ser.phase # "text" /\ WellFormed(ser.text)) =>
      /\ ~ser.raised
      /\ ser.sexpr = List(GrammarItems(TokensOf(ser.text), 2).items)


\* the first element completed at nesting depth 0 from token i on: an atom
\* that a later character ends, or a list that is closed; the empty list
\* when there is none.  A ')' at depth 0 opens and completes nothing.
RECURSIVE FirstCollected(_, _, _)
FirstCollected(text, tokens, i) ==
    IF i > Len(tokens) THEN EmptyList
    ELSE IF tokens[i].kind = ")" THEN FirstCollected(text, tokens, i + 1)
    ELSE IF tokens[i].kind = "atom"
      THEN IF tokens[i].end < Len(text) THEN Atom(tokens[i].s) ELSE EmptyList
    ELSE LET inner == GrammarItems(tokens, i + 1) IN
         IF inner.next <= Len(tokens) THEN List(inner.items) ELSE EmptyList

\* C16: parse returns the empty list for a text that is empty or all
\* whitespace, and otherwise the first element collected at the outermost
\* level, whatever follows it, or the empty list when no top-level element
\* was completed (stated for the texts without a backslash, whose quoted
\* strings are not in doubt).
\* Violated: with a ')' at depth 0 parse returns nothing, it raises.
C16_FirstTopLevelElement ==
    (ser.phase # "text" /\ ~Contains(ser.text, "\\")) =>
      /\ ~ser.raised
      /\ ser.sexpr = IF Strip(ser.text) = "" THEN EmptyList
                     ELSE FirstCollected(Strip(ser.text), TokensOf(Strip(ser.text)), 1)

-----------------------------------------------------------------------------
(* The tree queries: find_footprints, find_3d_models, find_library_path *)

SEXPR_PROPERTY == "property"
SEXPR_FOOTPRINT == "Footprint"
SEXPR_MODEL == "model"

\* the outcome of a query: an AttributeError (str.strip called on a list), or the value
\* returned
QueryRaised == [raised |-> TRUE]
QueryValue(v) == [raised |-> FALSE, value |-> v]

\* what one list node adds to footprints before its items are searched
footprints_of_node(q, footprints) ==
    IF ~(Len(q) >= 3 /\ q[1] = Atom(SEXPR_PROPERTY)) THEN QueryValue(footprints)
    ELSE IF IsList(q[2]) THEN QueryRaised
    ELSE IF StripChar(q[2].a, "\"") # SEXPR_FOOTPRINT THEN QueryValue(footprints)
    ELSE IF IsList(q[3]) THEN QueryRaised
    ELSE LET fp_value == StripChar(q[3].a, "\"")
             colon == FindFrom(fp_value, ":", 1)
             lib == Strip(SubSeq(fp_value, 1, colon - 1))
             fp == Strip(SubSeq(fp_value, colon + 1, Len(fp_value)))
         IN  IF colon = 0 THEN QueryValue(footprints)
             ELSE IF lib # "" /\ fp # "" THEN QueryValue(footprints \cup {<<lib, fp>>})
             ELSE QueryValue(footprints)

\* search(node) of find_footprints, and its loop over the items of a list from index k;
\* st is the outcome so far
RECURSIVE search(_, _)
RECURSIVE search_items(_, _, _)
search(node, st) ==
    IF st.raised \/ ~IsList(node) THEN st
    ELSE search_items(node.l, 1, footprints_of_node(node.l, st.value))
search_items(q, k, st) ==
    IF st.raised \/ k > Len(q) THEN st
    ELSE search_items(q, k + 1, search(q[k], st))

find_footprints(sexpr) == search(sexpr, QueryValue({}))

\* search_models(node) of find_3d_models, and its loop over the items of a list
RECURSIVE search_models(_, _)
RECURSIVE search_models_items(_, _, _)
search_models(node, st) ==
    IF st.raised \/ ~(IsList(node) /\ Len(node.l) > 0) THEN st
    ELSE LET q == node.l
             here == IF q[1] = Atom(SEXPR_MODEL) /\ Len(q) > 1
                     THEN IF IsList(q[2]) THEN QueryRaised
                          ELSE QueryValue(Append(st.value, StripChar(q[2].a, "\"")))
                     ELSE st
         IN  search_models_items(q, 1, here)
search_models_items(q, k, st) ==
    IF st.raised \/ k > Len(q) THEN st
    ELSE search_models_items(q, k + 1,
                             IF IsList(q[k]) THEN search_models(q[k], st) ELSE st)

find_3d_models(sexpr) == search_models(sexpr, QueryValue(<<>>))

\* the loop of search_lib over the items of a lib node: e holds lib_entry_name and
\* lib_entry_uri, each None_ until a field sets it; the last field of a kind wins
RECURSIVE lib_entry_fields(_, _, _)
lib_entry_fields(q, k, e) ==
    IF e.raised \/ k > Len(q) THEN e
    ELSE LET item == q[k] IN
         IF ~(IsList(item) /\ Len(item.l) >= 2) THEN lib_entry_fields(q, k + 1, e)
         ELSE IF item.l[1] = Atom(SEXPR_NAME)
              THEN IF IsList(item.l[2]) THEN [e EXCEPT !.raised = TRUE]
                   ELSE lib_entry_fields(q, k + 1,
                            [e EXCEPT !.lib_entry_name = PyStr(StripChar(item.l[2].a, "\""))])
         ELSE IF item.l[1] = Atom(SEXPR_URI)
              THEN IF IsList(item.l[2]) THEN [e EXCEPT !.raised = TRUE]
                   ELSE lib_entry_fields(q, k + 1,
                            [e EXCEPT !.lib_entry_uri = PyStr(StripChar(item.l[2].a, "\""))])
         ELSE lib_entry_fields(q, k + 1, e)

\* search_lib(node) of find_library_path, and its loop over the items of a list; the value
\* is None_ or the URI found
RECURSIVE search_lib(_, _)
RECURSIVE search_lib_items(_, _, _)
search_lib(node, lib_name) ==
    IF ~(IsList(node) /\ Len(node.l) > 0) THEN QueryValue(None_)
    ELSE LET q == node.l
             e == IF q[1] = Atom(SEXPR_LIB)
                  THEN lib_entry_fields(q, 1, [raised |-> FALSE, lib_entry_name |-> None_,
                                               lib_entry_uri |-> None_])
                  ELSE [raised |-> FALSE, lib_entry_name |-> None_, lib_entry_uri |-> None_]
         IN  IF e.raised THEN QueryRaised
             ELSE IF /\ e.lib_entry_name = PyStr(lib_name)
                     /\ e.lib_entry_uri # None_
                     /\ e.lib_entry_uri # PyStr("")
                  THEN QueryValue(e.lib_entry_uri)
             ELSE search_lib_items(q, 1, lib_name)
search_lib_items(q, k, lib_name) ==
    IF k > Len(q) THEN QueryValue(None_)
    ELSE IF ~IsList(q[k]) THEN search_lib_items(q, k + 1, lib_name)
    ELSE LET result == search_lib(q[k], lib_name) IN
         IF result.raised THEN result
         ELSE IF result.value # None_ THEN result
         ELSE search_lib_items(q, k + 1, lib_name)

find_library_path(sexpr, lib_name) == search_lib(sexpr, lib_name)

\* the trees handed to the queries: a file's top-level list holding up to MaxNodes nodes,
\* each a property, model or lib node, bare or wrapped in one more list
MaxNodes == 2

QueryPropertyNames == {Atom("\"Footprint\""), Atom("\"Value\""), List(<<Atom("a")>>)}
QueryPropertyValues ==
    {Atom("\"R_SMD:R_0805\""), Atom("\"~\""), Atom("\" Lib : a:b \""), Atom("\":x\""),
     Atom("\"y: \""), List(<<Atom("at")>>)}
QueryPropertyNodes ==
    {List(<<Atom(SEXPR_PROPERTY), n, v>>) : n \in QueryPropertyNames,
                                            v \in QueryPropertyValues}
    \cup {List(<<Atom(SEXPR_PROPERTY), Atom("\"Footprint\"")>>),
          List(<<Atom(SEXPR_PROPERTY), Atom("\"Footprint\""), Atom("\"C_SMD:C_0603\""),
                 List(<<Atom("at")>>)>>)}

QueryModelNodes ==
    {List(<<Atom(SEXPR_MODEL), Atom("\"m.step\"")>>),
     List(<<Atom(SEXPR_MODEL), Atom("\"n.wrl\""), List(<<Atom("offset")>>)>>),
     List(<<Atom(SEXPR_MODEL), Atom("m.step"),
            List(<<Atom(SEXPR_MODEL), Atom("\"inner.wrl\"")>>)>>),
     List(<<Atom(SEXPR_MODEL)>>),
     List(<<Atom(SEXPR_MODEL), List(<<Atom("x")>>)>>)}

LibField(key, value) == List(<<Atom(key), value>>)
QueryLibNames == {"A", "B"}
QueryLibNodes ==
    {List(<<Atom(SEXPR_LIB), LibField(SEXPR_NAME, Atom("\"A\"")),
            LibField(SEXPR_URI, Atom("\"u1\""))>>),
     List(<<Atom(SEXPR_LIB), LibField(SEXPR_URI, Atom("\"u2\"")),
            LibField(SEXPR_NAME, Atom("\"A\""))>>),
     List(<<Atom(SEXPR_LIB), LibField(SEXPR_NAME, Atom("B")),
            LibField(SEXPR_TYPE, Atom("KiCad")), LibField(SEXPR_URI, Atom("u3"))>>),
     List(<<Atom(SEXPR_LIB), LibField(SEXPR_NAME, Atom("\"A\"")),
            LibField(SEXPR_URI, Atom("\"\""))>>),
     List(<<Atom(SEXPR_LIB), LibField(SEXPR_NAME, Atom("\"A\""))>>),
     List(<<Atom(SEXPR_LIB), LibField(SEXPR_NAME, List(<<Atom("x")>>)),
            LibField(SEXPR_URI, Atom("\"u4\""))>>)}

QueryNodes ==
    LET bare == QueryPropertyNodes \cup QueryModelNodes \cup QueryLibNodes
    IN  bare \cup {List(<<Atom("footprint"), n>>) : n \in bare}

QueryTrees ==
    {Atom("a")} \cup {List(<<Atom("kicad_pcb")>> \o q) : q \in SeqsUpTo(QueryNodes, MaxNodes)}

InitQuery ==
    /\ ser \in {[phase |-> "tree", sexpr |-> t, query |-> "", lib_name |-> "",
                 result |-> QueryValue(None_)] :
                  t \in QueryTrees}
    /\ DatasheetIdle
    /\ ParserUnused

\* footprints = parser.find_footprints(sexpr)
FindFootprints ==
    /\ ser.phase = "tree"
    /\ ser' = [ser EXCEPT !.phase = "answered", !.query = "find_footprints",
                          !.result = find_footprints(ser.sexpr)]
    /\ UNCHANGED <<parser_vars, datasheet_vars>>

\* model_paths = parser.find_3d_models(sexpr)
Find3dModels ==
    /\ ser.phase = "tree"
    /\ ser' = [ser EXCEPT !.phase = "answered", !.query = "find_3d_models",
                          !.result = find_3d_models(ser.sexpr)]
    /\ UNCHANGED <<parser_vars, datasheet_vars>>

\* lib_path = parser.find_library_path(sexpr, lib_name)
FindLibraryPath(lib_name) ==
    /\ ser.phase = "tree"
    /\ ser' = [ser EXCEPT !.phase = "answered", !.query = "find_library_path",
                          !.lib_name = lib_name, !.result = find_library_path(ser.sexpr, lib_name)]
    /\ UNCHANGED <<parser_vars, datasheet_vars>>

NextQuery ==
    \/ FindFootprints
    \/ Find3dModels
    \/ \E lib_name \in QueryLibNames \cup {"C"} : FindLibraryPath(lib_name)

SpecQuery == InitQuery /\ [][NextQuery]_vars

\* every list node of a tree, at any depth
RECURSIVE ListNodes(_)
ListNodes(node) ==
    IF IsAtom(node) THEN {}
    ELSE {node} \cup UNION {ListNodes(node.l[k]) : k \in 1..Len(node.l)}

\* the pairs a list node of the shape (property "Footprint" "library:name" ...) stands for:
\* the value without its quotes is split at its first colon and both halves are trimmed
FootprintPairs(node) ==
    IF /\ Len(node.l) >= 3
       /\ node.l[1] = Atom("property")
       /\ IsAtom(node.l[2]) /\ StripChar(node.l[2].a, "\"") = "Footprint"
       /\ IsAtom(node.l[3])
    THEN LET v == StripChar(node.l[3].a, "\"") IN
         {<<Strip(SubSeq(v, 1, k - 1)), Strip(SubSeq(v, k + 1, Len(v)))>> :
            k \in {i \in 1..Len(v) : /\ CharAt(v, i) = ":"
                                     /\ \A j \in 1..(i - 1) : CharAt(v, j) # ":"
                                     /\ Strip(SubSeq(v, 1, i - 1)) # ""
                                     /\ Strip(SubSeq(v, i + 1, Len(v))) # ""}}
    ELSE {}

\* C18: for every tree T, find_footprints(T) returns exactly the set of (library, name)
\* pairs for which some list node at any depth of T has the shape
\* (property "Footprint" "library:name" ...), the value being split at its first colon and
\* both halves being non-empty after trimming; a value without a colon contributes no pair
C18_FootprintsExact ==
    (ser.phase = "answered" /\ ser.query = "find_footprints")
        => /\ ~ser.result.raised
           /\ ser.result.value = UNION {FootprintPairs(n) : n \in ListNodes(ser.sexpr)}

\* the same, on the calls that return
C18_FootprintsExactWhenReturned ==
    (ser.phase = "answered" /\ ser.query = "find_footprints" /\ ~ser.result.raised)
        => ser.result.value = UNION {FootprintPairs(n) : n \in ListNodes(ser.sexpr)}

\* the list nodes of a tree in document order: a node before the nodes inside it, the items
\* of a list from left to right
RECURSIVE PreOrder(_)
RECURSIVE PreOrderItems(_, _)
PreOrder(node) == IF IsAtom(node) THEN <<>> ELSE <<node>> \o PreOrderItems(node.l, 1)
PreOrderItems(q, k) ==
    IF k > Len(q) THEN <<>> ELSE PreOrder(q[k]) \o PreOrderItems(q, k + 1)

\* the values, without quotes, of the (key "value") sub-lists of a list node
FieldValues(node, key) ==
    {StripChar(node.l[k].l[2].a, "\"") :
       k \in {i \in 1..Len(node.l) : /\ IsList(node.l[i])
                                     /\ Len(node.l[i].l) >= 2
                                     /\ node.l[i].l[1] = Atom(key)
                                     /\ IsAtom(node.l[i].l[2])}}

IsLibEntry(node) == Len(node.l) > 0 /\ node.l[1] = Atom("lib")

\* the URI of a lib entry, None_ for an entry without a uri sub-list
UriOfEntry(node) ==
    IF FieldValues(node, "uri") = {} THEN None_
    ELSE PyStr(CHOOSE u \in FieldValues(node, "uri") : TRUE)

\* the first lib entry of a tree, in document order, that has the name; <<>> when none has
FirstNamed(node, name) ==
    LET entries == SelectSeq(PreOrder(node), IsLibEntry)
        named == {i \in 1..Len(entries) : name \in FieldValues(entries[i], "name")}
    IN  IF named = {} THEN <<>> ELSE <<entries[MinOf(named)]>>

\* C19: find_library_path(T, name) returns the URI of the first lib entry, in document
\* order, whose name field equals name (name and uri sub-lists in any order, quotes
\* stripped), and returns None when no lib entry has that name
C19_FirstNamedEntry ==
    (ser.phase = "answered" /\ ser.query = "find_library_path")
        => /\ ~ser.result.raised
           /\ LET first == FirstNamed(ser.sexpr, ser.lib_name) IN
              ser.result.value = IF first = <<>> THEN None_ ELSE UriOfEntry(first[1])

\* the answer is the URI of the first entry that has the name and a non-empty URI, on the
\* calls that return
C19_FirstNamedEntryWithUri ==
    (ser.phase = "answered" /\ ser.query = "find_library_path" /\ ~ser.result.raised)
        => LET entries == SelectSeq(PreOrder(ser.sexpr), IsLibEntry)
               usable == {i \in 1..Len(entries) :
                            /\ ser.lib_name \in FieldValues(entries[i], "name")
                            /\ UriOfEntry(entries[i]) \notin {None_, PyStr("")}}
           IN  ser.result.value = IF usable = {} THEN None_
                                  ELSE UriOfEntry(entries[MinOf(usable)])

\* a list node of the shape (model "path" ...)
IsModelNode(node) ==
    Len(node.l) >= 2 /\ node.l[1] = Atom("model") /\ IsAtom(node.l[2])

\* the paths, without quotes, of a sequence of model nodes, in the order of the sequence
RECURSIVE PathsOf(_)
PathsOf(nodes) ==
    IF nodes = <<>> THEN <<>>
    ELSE <<StripChar(Head(nodes).l[2].a, "\"")>> \o PathsOf(Tail(nodes))

\* C20: find_3d_models(T) returns the quote-stripped path of every (model "path" ...) list
\* node of T in document (pre-order) order, with one entry per node so that repeated paths
\* appear repeatedly
C20_ModelsInDocumentOrder ==
    (ser.phase = "answered" /\ ser.query = "find_3d_models")
        => /\ ~ser.result.raised
           /\ ser.result.value = PathsOf(SelectSeq(PreOrder(ser.sexpr), IsModelNode))

\* the same, on the calls that return
C20_ModelsInDocumentOrderWhenReturned ==
    (ser.phase = "answered" /\ ser.query = "find_3d_models" /\ ~ser.result.raised)
        => ser.result.value = PathsOf(SelectSeq(PreOrder(ser.sexpr), IsModelNode))

-----------------------------------------------------------------------------
(* BackupManager.create_backup and the paths of its backups *)

BACKUP_SUFFIX == ".bak"

\* the latest reading of the clock, in seconds after the first
MaxClock == 2

\* datetime.now().strftime(BACKUP_TIMESTAMP_FORMAT) at second now: "%Y%m%d_%H%M%S" keeps
\* whole seconds only
Timestamp(now) == "20260101_12000" \o <<"0", "1", "2", "3", "4", "5", "6", "7", "8", "9">>[now + 1]

BackupFiles == {SCHEMATIC_FILE, "sym-lib-table"}
BackupContents == {"(v1)", "(v2)"}

\* backup_path = f"{filepath}{BACKUP_SUFFIX}_{timestamp}"
backup_path_of(filepath, now) == filepath \o BACKUP_SUFFIX \o "_" \o Timestamp(now)

BackupPaths == {backup_path_of(f, t) : f \in BackupFiles, t \in 0..MaxClock}

\* create_backup(filepath) at second now on the file system fs with self.backups = bk;
\* copy_ok: shutil.copy2 succeeds (else the exception is logged and raised again)
create_backup(filepath, fs, bk, now, copy_ok) ==
    IF ~fs[filepath].exists
    THEN [files |-> fs, backups |-> bk, raised |-> FALSE, result |-> None_]
    ELSE LET backup_path == backup_path_of(filepath, now) IN
         IF ~copy_ok
         THEN [files |-> fs, backups |-> bk, raised |-> TRUE, result |-> None_]
         ELSE [files |-> [fs EXCEPT ![backup_path] = File(fs[filepath].content)],
               backups |-> Append(bk, backup_path),
               raised |-> FALSE,
               result |-> PyStr(backup_path)]

\* a BackupManager just constructed, the project files, no backup file yet; applied keeps
\* the successful calls, [file, path, content], and copy.now the clock
InitBackup ==
    /\ owner = "caller"
    /\ max_cache_size = 0
    /\ cache = <<>>
    /\ files \in {[p \in BackupFiles \cup BackupPaths |->
                     IF p \in BackupFiles THEN f[p] ELSE NoFile] :
                  f \in [BackupFiles -> {NoFile} \cup {File(c) : c \in BackupContents}]}
    /\ last = OpRecordNoParse("init", TRUE)
    /\ accessed = <<>>
    /\ n_updates = 0
    /\ SerializerIdle
    /\ seen = {}
    /\ scan = scan_idle
    /\ datasheet_map = <<>>
    /\ backups = <<>>
    /\ applied = <<>>
    /\ copy = [pc |-> "clock", now |-> 0]

\* a second passes between two calls
BackupTick ==
    /\ copy.pc = "clock"
    /\ copy.now < MaxClock
    /\ copy' = [copy EXCEPT !.now = copy.now + 1]
    /\ UNCHANGED <<parser_vars, serializer_vars, seen, scan, datasheet_map, backups, applied>>

\* the caller writes the file it has backed up
BackupModify(filepath, content) ==
    /\ copy.pc = "clock"
    /\ files[filepath].exists
    /\ files[filepath].content # content
    /\ files' = [files EXCEPT ![filepath] = File(content)]
    /\ last' = OpRecordNoParse("write", TRUE)
    /\ UNCHANGED <<owner, max_cache_size, cache, accessed, n_updates>>
    /\ UNCHANGED <<serializer_vars, datasheet_vars>>

\* backup_mgr.create_backup(filepath)
CreateBackup(filepath, copy_ok) ==
    /\ copy.pc = "clock"
    /\ Len(backups) < MaxBackups
    /\ LET r == create_backup(filepath, files, backups, copy.now, copy_ok) IN
       /\ files' = r.files
       /\ backups' = r.backups
       /\ last' = OpRecordNoParse("create_backup", ~r.raised)
       /\ applied' = IF r.result = None_ THEN applied
                     ELSE Append(applied, [file |-> filepath, path |-> r.result.s,
                                           content |-> files[filepath].content])
    /\ UNCHANGED <<owner, max_cache_size, cache, accessed, n_updates>>
    /\ UNCHANGED <<serializer_vars, seen, scan, datasheet_map, copy>>

NextBackup ==
    \/ BackupTick
    \/ \E f \in BackupFiles, c \in BackupContents : BackupModify(f, c)
    \/ \E f \in BackupFiles, copy_ok \in BOOLEAN : CreateBackup(f, copy_ok)

SpecBackup == InitBackup /\ [][NextBackup]_vars

\* C21: every successful create_backup call on an existing file produces a backup file
\* distinct from every earlier backup and holding the file's content at the time of that
\* call; a later backup never overwrites an earlier one, and the backups list holds one
\* distinct path per successful call
C21_BackupsDistinctAndKept ==
    copy.pc = "clock" =>
        /\ Len(backups) = Len(applied)
        /\ \A i \in 1..Len(applied) :
             /\ backups[i] = applied[i].path
             /\ files[applied[i].path] = File(applied[i].content)
             /\ \A j \in 1..(i - 1) : applied[j].path # applied[i].path

\* the same for calls made in different seconds: each call's backup holds the content the
\* file had at the call unless a later call on the same file fell into the same second
C21_KeptUnlessSameSecond ==
    copy.pc = "clock" =>
        /\ Len(backups) = Len(applied)
        /\ \A i \in 1..Len(applied) :
             /\ backups[i] = applied[i].path
             /\ \/ files[applied[i].path] = File(applied[i].content)
                \/ \E j \in (i + 1)..Len(applied) : applied[j].path = applied[i].path

-----------------------------------------------------------------------------
(* SExpressionParser.parse, one character at a time *)

\* the longest text scanned character by character
MaxScanLen == 5

ParseStart ==
    [raised |-> FALSE, stack |-> <<(<<>>)>>, tok |-> "", in_string |-> FALSE,
     escape_next |-> FALSE]

InitChars ==
    /\ ser \in {[phase |-> "text", text |-> t, pos |-> 0, st |-> ParseStart,
                 toggled |-> FALSE, sexpr |-> EmptyList] : t \in TextsUpTo(MaxScanLen)}
    /\ DatasheetIdle
    /\ ParserUnused

\* text = text.strip() and the initial values of the scan
CharsBegin ==
    /\ ser.phase = "text"
    /\ ser' = [ser EXCEPT !.phase = "scanning", !.text = Strip(ser.text)]
    /\ UNCHANGED <<parser_vars, datasheet_vars>>

\* one iteration of the while loop; toggled tells whether it changed in_string
CharsStep ==
    /\ ser.phase = "scanning"
    /\ ser.pos < Len(ser.text)
    /\ LET st == parse_step(ser.text, ser.st, ser.pos + 1) IN
       ser' = [ser EXCEPT !.phase = IF st.raised THEN "raised" ELSE "scanning",
                          !.pos = ser.pos + 1,
                          !.st = st,
                          !.toggled = (st.in_string # ser.st.in_string)]
    /\ UNCHANGED <<parser_vars, datasheet_vars>>

\* the end of the loop: result = stack[0][0] if stack[0] else []
CharsEnd ==
    /\ ser.phase = "scanning"
    /\ ser.pos = Len(ser.text)
    /\ ser' = [ser EXCEPT !.phase = "tree",
                          !.sexpr = IF Len(ser.st.stack[1]) > 0 THEN ser.st.stack[1][1]
                                    ELSE EmptyList]
    /\ UNCHANGED <<parser_vars, datasheet_vars>>

NextChars ==
    \/ CharsBegin
    \/ CharsStep
    \/ CharsEnd

SpecChars == InitChars /\ [][NextChars]_vars

\* whether the text stands inside a quoted string after its first i characters, and whether
\* character i is an unescaped backslash: a backslash inside a string escapes the character
\* after it, and a quote toggles the string unless an unescaped backslash stands right
\* before it
RECURSIVE QuoteState(_, _)
QuoteState(text, i) ==
    IF i = 0 THEN [in_string |-> FALSE, backslash |-> FALSE]
    ELSE LET p == QuoteState(text, i - 1)
             c == CharAt(text, i)
         IN  IF p.backslash /\ p.in_string THEN [p EXCEPT !.backslash = FALSE]
             ELSE IF c = "\\" THEN [p EXCEPT !.backslash = TRUE]
             ELSE IF c = "\"" /\ ~p.backslash
                  THEN [in_string |-> ~p.in_string, backslash |-> FALSE]
             ELSE [p EXCEPT !.backslash = FALSE]

\* C22: during parse, a double-quote character toggles the inside-quoted-string state
\* exactly when it is not immediately preceded by an unescaped backslash; a quote that
\* follows an escaped backslash (two consecutive backslashes inside a string) does toggle
\* the state and closes the string
C22_QuoteToggles ==
    (ser.phase = "scanning" /\ ser.pos >= 1 /\ CharAt(ser.text, ser.pos) = "\"")
        => (ser.toggled <=> ~QuoteState(ser.text, ser.pos - 1).backslash)

\* what the scan does: a quote toggles the state exactly when it is not escaped and the
\* character before it is not a backslash, escaped or not
C22_QuoteTogglesUnlessAfterBackslash ==
    (ser.phase = "scanning" /\ ser.pos >= 1 /\ CharAt(ser.text, ser.pos) = "\"")
        => (ser.toggled <=> /\ ~QuoteState(ser.text, ser.pos - 1).backslash
                            /\ (ser.pos = 1 \/ CharAt(ser.text, ser.pos - 1) # "\\"))

-----------------------------------------------------------------------------
(* The parse cache across a call that raises *)

\* C23: a parse call that raises leaves the parse cache exactly as it was before the
\* call: the same keys, the same values and the same recency order
C23_RaiseKeepsCache ==
    [][(last'.parsed /\ last'.raised) => cache' = cache]_vars

\* a raising call changes the cache by at most the eviction of its oldest entry, and does
\* so exactly when the cache was full
C23_RaiseEvictsOldestAtMost ==
    [][(last'.parsed /\ last'.raised)
         => cache' = IF Len(cache) >= max_cache_size /\ Len(cache) > 0
                     THEN Tail(cache) ELSE cache]_vars

-----------------------------------------------------------------------------
(* The reference map of copy_datasheets *)

\* C24: the reference map returned by copy_datasheets is injective: two distinct
\* references are never mapped to the same local path, so within one run no transferred
\* datasheet file is overwritten by the file of another reference
C24_MapInjective ==
    copy.pc = "returned" =>
        \A i \in 1..Len(datasheet_map) : \A j \in 1..Len(datasheet_map) :
            datasheet_map[i][2] = datasheet_map[j][2] => datasheet_map[i][1] = datasheet_map[j][1]

-----------------------------------------------------------------------------
(* localize_all_datasheets across a file that fails *)

\* C25: in localize_all_datasheets, a failure on one file while scanning or updating
\* (unreadable or oversized file, backup failure, write failure) never prevents the
\* remaining symbol libraries and schematics from being scanned and updated, and the call
\* returns normally
C25_OneBadFileDoesNotAbort ==
    /\ copy.pc # "raised"
    /\ (copy.pc = "returned" /\ datasheet_map # <<>>) => copy.idx > Len(LocalizeFiles)

\* the call is left by an exception only in the updating loops, with no file written by
\* the turn that raised
C25_RaisedOnlyWhileUpdating ==
    [][copy'.pc = "raised" => (copy.pc = "update" /\ files' = files /\ backups' = backups)]_vars

-----------------------------------------------------------------------------
(* The lib entries of the sym-lib-table *)

\* the number of lib entries of a table that carry the name (quoted or not)
NamedEntries(table, name) ==
    IF ~IsList(table) THEN 0
    ELSE Cardinality({k \in 1..Len(table.l) :
                        /\ IsList(table.l[k])
                        /\ IsLibEntry(table.l[k])
                        /\ name \in FieldValues(table.l[k], "name")})

\* C26: update_sym_lib_table never produces a table with two lib entries of the same
\* library name: for every existing table that already lists the library (name quoted or
\* unquoted) and for every sequence of calls with the same name on one SymbolLocalizer,
\* including calls whose file write failed, the table written contains exactly one lib
\* entry with that name
C26_OneEntryPerName ==
    (owner = "SymbolLocalizer" /\ last.op = "update_sym_lib_table" /\ last.ok)
        => NamedEntries(parse_fresh(Strip(files[SYM_LIB_TABLE_FILE].content)).tree,
                        DEFAULT_SYMBOL_LIB_NAME) = 1

-----------------------------------------------------------------------------
(* The tree queries on every tree, the layout of the library tables *)

\* C27: for every tree that parse can return, find_footprints, find_3d_models and
\* find_library_path return without raising and leave the tree unchanged, including trees
\* in which the second or third element of a property, model, name or uri node is a list
\* instead of an atom
C27_QueriesTotal ==
    ser.phase = "answered" => ~ser.result.raised

\* a query raises only on a tree that holds a list where it strips the quotes of a string
C27_RaisedOnlyOnListField ==
    (ser.phase = "answered" /\ ser.result.raised)
        => \E n \in ListNodes(ser.sexpr) :
             \/ Len(n.l) >= 3 /\ n.l[1] = Atom("property") /\ (IsList(n.l[2]) \/ IsList(n.l[3]))
             \/ Len(n.l) >= 2 /\ n.l[1] \in {Atom("model"), Atom("name"), Atom("uri")}
                  /\ IsList(n.l[2])

\* each lib entry of a serialized table stands on its own line behind two spaces, and the
\* closing parenthesis of the table on a line of its own
TableLayout(s) ==
    /\ EndsWith(s, "\n)")
    /\ \A i \in 1..(Len(s) - 3) :
         SubSeq(s, i, i + 3) = "(lib" => (i >= 4 /\ SubSeq(s, i - 3, i - 1) = "\n  ")

\* C28: every library table the program serializes, both the fp-lib-table (keyword
\* fp_lib_table) and the sym-lib-table (keyword sym_lib_table), has each lib entry on its
\* own line indented by two spaces and the closing parenthesis of the table on its own line
C28_TablesOneEntryPerLine ==
    [][\A f \in DOMAIN files \cap {FP_LIB_TABLE_FILE, SYM_LIB_TABLE_FILE} :
         (/\ files'[f] # files[f]
          /\ \/ StartsWith(files'[f].content, "(" \o SEXPR_FP_LIB_TABLE)
             \/ StartsWith(files'[f].content, "(" \o SEXPR_SYM_LIB_TABLE))
           => TableLayout(files'[f].content)]_vars

\* the fp-lib-table alone
C28_FpTableOneEntryPerLine ==
    [][\A f \in DOMAIN files \cap {FP_LIB_TABLE_FILE} :
         (files'[f] # files[f] /\ StartsWith(files'[f].content, "(" \o SEXPR_FP_LIB_TABLE))
           => TableLayout(files'[f].content)]_vars

-----------------------------------------------------------------------------
(* FootprintLocalizer.localize_3d_models *)

DEFAULT_MODELS_DIR_NAME == "3D Models"

\* the most footprints handed to one call
MaxFootprints == 2

\* the variable the model paths use, and the directory it stands for when it is set
MODEL_VAR == "M"
MODEL_VAR_VALUE == "/m"

\* LibraryManager.expand_path(path) with one variable known to the environment or not
\* (a variable without a value stays in the path)
expand_path(path, var_set) ==
    LET expanded_path == IF var_set /\ Contains(path, "${" \o MODEL_VAR \o "}")
                         THEN Replace(path, "${" \o MODEL_VAR \o "}", MODEL_VAR_VALUE)
                         ELSE path
    IN  IF StartsWith(expanded_path, "file://")
        THEN SubSeq(expanded_path, 8, Len(expanded_path))
        ELSE expanded_path

\* relative_model_path
relative_model_path(models_dir_name, model_filename) ==
    "${" \o ENV_VAR_KIPRJMOD \o "}/" \o models_dir_name \o "/" \o model_filename

\* copied_models[model_path], "" when model_path is no key
copied_model(copied_models, model_path) ==
    LET hits == {k \in 1..Len(copied_models) : copied_models[k][1] = model_path} IN
    IF hits = {} THEN "" ELSE copied_models[MinOf(hits)][2]

\* a loop body that queues the old path of a model it could not copy
localize_model_queues_failed(model_path, st, dir, exists, copy_ok, var_set) ==
    LET expanded_path == expand_path(model_path, var_set)
        model_filename == Basename(expanded_path)
        new_path == relative_model_path(DEFAULT_MODELS_DIR_NAME, model_filename)
    IN  IF ~exists
        THEN [st |-> [st EXCEPT !.failed_count = @ + 1,
                                !.old_model_paths = Append(@, model_path)],
              dir |-> dir]
        ELSE IF copied_model(st.copied_models, model_path) # ""
        THEN [st |-> [st EXCEPT
                        !.old_model_paths = Append(@, model_path),
                        !.new_model_paths =
                            Append(@, copied_model(st.copied_models, model_path))],
              dir |-> dir]
        ELSE IF ~copy_ok
        THEN [st |-> [st EXCEPT !.failed_count = @ + 1], dir |-> dir]
        ELSE [st |-> [st EXCEPT !.copied_count = @ + 1,
                                !.copied_models = Append(@, <<model_path, new_path>>),
                                !.old_model_paths = Append(@, model_path),
                                !.new_model_paths = Append(@, new_path)],
              dir |-> [dir EXCEPT ![model_filename] = File(expanded_path)]]

\* the body of the loop over model_paths for one model: st holds the counters, the
\* copied_models map and the two lists of the footprint, dir the files of the project;
\* exists: os.path.exists(expanded_path), copy_ok: shutil.copy2 succeeds
localize_model(model_path, st, dir, exists, copy_ok, var_set) ==
    LET expanded_path == expand_path(model_path, var_set)
        model_filename == Basename(expanded_path)
        new_path == relative_model_path(DEFAULT_MODELS_DIR_NAME, model_filename)
    IN  IF ~exists
        THEN [st |-> [st EXCEPT !.failed_count = @ + 1], dir |-> dir]
        ELSE IF copied_model(st.copied_models, model_path) # ""
        THEN [st |-> [st EXCEPT
                        !.old_model_paths = Append(@, model_path),
                        !.new_model_paths =
                            Append(@, copied_model(st.copied_models, model_path))],
              dir |-> dir]
        ELSE IF ~copy_ok
        THEN [st |-> [st EXCEPT !.failed_count = @ + 1], dir |-> dir]
        ELSE [st |-> [st EXCEPT !.copied_count = @ + 1,
                                !.copied_models = Append(@, <<model_path, new_path>>),
                                !.old_model_paths = Append(@, model_path),
                                !.new_model_paths = Append(@, new_path)],
              dir |-> [dir EXCEPT ![model_filename] = File(expanded_path)]]

\* content.replace(f'"{old_path}"', f'"{new_path}"') for the pairs of zip(old_paths,
\* new_paths) from index k on
RECURSIVE replace_model_paths(_, _, _, _)
replace_model_paths(content, old_paths, new_paths, k) ==
    IF k > Len(old_paths) \/ k > Len(new_paths) THEN content
    ELSE replace_model_paths(Replace(content, "\"" \o old_paths[k] \o "\"",
                                     "\"" \o new_paths[k] \o "\""),
                             old_paths, new_paths, k + 1)

\* the footprint files copied into the project: one model behind a variable; two models,
\* the first shared with the former; no model; a model node without a path; an unquoted
\* path and a path of the same file name in another directory; a surplus ')'
FootprintContents ==
    {"(footprint R (model \"${M}/R.step\"))",
     "(footprint C (model \"${M}/R.step\") (model \"/n/C.wrl\"))",
     "(footprint X)",
     "(footprint (model (x)))",
     "(footprint U (model /n/C.wrl) (model \"/n/R.step\"))",
     "(a))"}

\* the model files that may be missing (/n/R.step is always there)
ModelFiles == {"/m/R.step", "/n/C.wrl", "${M}/R.step"}
ModelDestNames == {"R.step", "C.wrl"}
FootprintDest(k) == <<"fp1.kicad_mod", "fp2.kicad_mod", "fp3.kicad_mod">>[k]

InitModels ==
    /\ SerializerIdle
    /\ owner = "FootprintLocalizer"
    /\ max_cache_size = 0
    /\ cache = <<>>
    /\ last = OpRecordNoParse("init", TRUE)
    /\ accessed = <<>>
    /\ n_updates = 0
    /\ seen = {}
    /\ scan = scan_idle
    /\ datasheet_map = <<>>
    /\ backups = <<>>
    /\ applied = <<>>
    /\ \E q \in SeqsUpTo(FootprintContents, MaxFootprints), missing \in SUBSET ModelFiles,
          var_set \in BOOLEAN :
         /\ files = [f \in {FootprintDest(k) : k \in 1..Len(q)} \cup ModelDestNames |->
                       IF f \in ModelDestNames THEN NoFile
                       ELSE File(q[CHOOSE k \in 1..Len(q) : FootprintDest(k) = f])]
         /\ copy = [pc |-> "start", copied_footprints |-> q, missing |-> missing,
                    var_set |-> var_set, fi |-> 0, model_paths |-> <<>>, mi |-> 0,
                    copied_models |-> <<>>, old_model_paths |-> <<>>,
                    new_model_paths |-> <<>>, footprints_to_update |-> <<>>, ui |-> 0,
                    total_models |-> 0, copied_count |-> 0, failed_count |-> 0]

\* the call up to its loop; without footprints it returns (0, 0) at once
ModelsStart ==
    /\ copy.pc = "start"
    /\ copy' = [copy EXCEPT !.pc = IF copy.copied_footprints = <<>> THEN "returned"
                                   ELSE "footprint",
                            !.fi = 1]
    /\ UNCHANGED <<parser_vars, serializer_vars, seen, scan, datasheet_map, backups, applied>>

\* the next footprint is read and parsed and its model paths are found; a footprint that
\* cannot be parsed or holds no model is passed over
ModelsFootprint ==
    /\ copy.pc = "footprint"
    /\ copy.fi <= Len(copy.copied_footprints)
    /\ LET p == parse_fresh(Strip(copy.copied_footprints[copy.fi]))
           found == IF p.raised THEN QueryRaised ELSE find_3d_models(p.tree)
       IN  copy' = IF found.raised \/ found.value = <<>>
                   THEN [copy EXCEPT !.fi = @ + 1]
                   ELSE [copy EXCEPT !.pc = "model", !.model_paths = found.value,
                                     !.mi = 1, !.old_model_paths = <<>>,
                                     !.new_model_paths = <<>>,
                                     !.total_models = @ + Len(found.value)]
    /\ UNCHANGED <<parser_vars, serializer_vars, seen, scan, datasheet_map, backups, applied>>

\* one turn of the loop over model_paths
ModelsStep(copy_ok) ==
    /\ copy.pc = "model"
    /\ copy.mi <= Len(copy.model_paths)
    /\ LET model_path == copy.model_paths[copy.mi]
           exists == expand_path(model_path, copy.var_set) \notin copy.missing
           r == localize_model(model_path, copy, files, exists, copy_ok, copy.var_set)
       IN  /\ copy' = [r.st EXCEPT !.mi = @ + 1]
           /\ files' = r.dir
    /\ UNCHANGED <<owner, max_cache_size, cache, last, accessed, n_updates>>
    /\ UNCHANGED <<serializer_vars, seen, scan, datasheet_map, backups, applied>>

\* the footprint is queued for updating if one of its models has a local copy
ModelsQueue ==
    /\ copy.pc = "model"
    /\ copy.mi > Len(copy.model_paths)
    /\ copy' = [copy EXCEPT
                  !.pc = "footprint",
                  !.fi = @ + 1,
                  !.footprints_to_update =
                      IF copy.old_model_paths # <<>>
                      THEN Append(@, [dest_fp_path |-> FootprintDest(copy.fi),
                                      old_paths |-> copy.old_model_paths,
                                      new_paths |-> copy.new_model_paths])
                      ELSE @]
    /\ UNCHANGED <<parser_vars, serializer_vars, seen, scan, datasheet_map, backups, applied>>

\* one turn of the loop over footprints_to_update once every footprint is processed;
\* applied keeps what the turn read and wrote
ModelsUpdate(write_ok) ==
    /\ \/ copy.pc = "update"
       \/ copy.pc = "footprint" /\ copy.fi > Len(copy.copied_footprints)
    /\ LET ui == IF copy.pc = "update" THEN copy.ui ELSE 1 IN
       /\ ui <= Len(copy.footprints_to_update)
       /\ LET u == copy.footprints_to_update[ui]
              content == files[u.dest_fp_path].content
              new_content == replace_model_paths(content, u.old_paths, u.new_paths, 1)
          IN  /\ files' = IF write_ok THEN [files EXCEPT ![u.dest_fp_path] = File(new_content)]
                          ELSE files
              /\ applied' = Append(applied, [before |-> content, after |-> new_content,
                                             written |-> write_ok,
                                             old_paths |-> u.old_paths,
                                             new_paths |-> u.new_paths])
       /\ copy' = [copy EXCEPT !.pc = "update", !.ui = ui + 1]
    /\ UNCHANGED <<owner, max_cache_size, cache, last, accessed, n_updates>>
    /\ UNCHANGED <<serializer_vars, seen, scan, datasheet_map, backups>>

\* return (copied_count, failed_count)
ModelsReturn ==
    /\ \/ copy.pc = "update" /\ copy.ui > Len(copy.footprints_to_update)
       \/ /\ copy.pc = "footprint"
          /\ copy.fi > Len(copy.copied_footprints)
          /\ copy.footprints_to_update = <<>>
    /\ copy' = [copy EXCEPT !.pc = "returned"]
    /\ UNCHANGED <<parser_vars, serializer_vars, seen, scan, datasheet_map, backups, applied>>

NextModels ==
    \/ ModelsStart
    \/ ModelsFootprint
    \/ \E copy_ok \in BOOLEAN : ModelsStep(copy_ok)
    \/ ModelsQueue
    \/ \E write_ok \in BOOLEAN : ModelsUpdate(write_ok)
    \/ ModelsReturn

SpecModels == InitModels /\ [][NextModels]_vars

\* the local copy of a model path: the file of its name in the models folder of the project
LocalCopyOf(old_path, var_set) ==
    "${KIPRJMOD}/3D Models/" \o Basename(IF var_set THEN Replace(old_path, "${M}", "/m")
                                          ELSE old_path)

\* the two lists pair every old path with its local copy
Paired(old_paths, new_paths, var_set) ==
    /\ Len(old_paths) = Len(new_paths)
    /\ \A i \in 1..Len(old_paths) : new_paths[i] = LocalCopyOf(old_paths[i], var_set)

\* C29: in localize_3d_models, for every footprint the list of old model paths and the
\* list of new model paths always have equal length and the i-th new path is the local
\* copy of the i-th old path, also when some models of that footprint are missing or fail
\* to copy or were already copied for an earlier footprint; each replacement targets the
\* quoted literal of the old path
C29_PathsPaired ==
    copy.pc \in {"model", "footprint", "update", "returned"} =>
        /\ Paired(copy.old_model_paths, copy.new_model_paths, copy.var_set)
        /\ \A k \in 1..Len(copy.footprints_to_update) :
             Paired(copy.footprints_to_update[k].old_paths,
                    copy.footprints_to_update[k].new_paths, copy.var_set)
        /\ \A k \in 1..Len(applied) :
             LET a == applied[k]
                 quoted(path) == "\"" \o path \o "\""
             IN  /\ \A i \in 1..Len(a.old_paths) :
                       /\ ~Contains(a.after, quoted(a.old_paths[i]))
                       /\ Contains(a.before, quoted(a.old_paths[i]))
                            => Contains(a.after, quoted(a.new_paths[i]))
                 /\ (\A i \in 1..Len(a.old_paths) :
                        ~Contains(a.before, quoted(a.old_paths[i]))) => a.after = a.before

\* a footprint with two models was queued and rewritten after its first model, copied for
\* an earlier footprint already, was taken from the map and its second model was missing
C29_Witness ==
    /\ copy.pc = "returned"
    /\ copy.copied_footprints = <<"(footprint R (model \"${M}/R.step\"))",
                                  "(footprint C (model \"${M}/R.step\") (model \"/n/C.wrl\"))">>
    /\ "/n/C.wrl" \in copy.missing
    /\ copy.failed_count = 1
    /\ copy.copied_count = 1
    /\ Len(copy.footprints_to_update) = 2
    /\ copy.footprints_to_update[2].old_paths = <<"${M}/R.step">>
    /\ Len(applied) = 2
    /\ applied[2].written
    /\ Contains(files[FootprintDest(2)].content, "\"${KIPRJMOD}/3D Models/R.step\"")
    /\ Contains(files[FootprintDest(2)].content, "\"/n/C.wrl\"")

-----------------------------------------------------------------------------
(* localize_all_datasheets called twice over the same files *)

\* what the schematic may hold in the two runs: as before, and a bare file
\* name beside an absolute path that ends with it
RerunSchematicContents ==
    LocalizeSchematicContents \cup {File(SchContent(<<"b.pdf", "/lib/b.pdf">>))}

\* the project files of the two runs: one symbol library and the schematic
RerunProjectFiles == {SYMBOL_LIB_FILE, SCHEMATIC_FILE}

\* the state before the first call; copy.run counts the calls, copy.start
\* holds the files as the first call found them and copy.first what the
\* first call left behind
InitRerun ==
    /\ SerializerIdle
    /\ owner = "DataSheetLocalizer"
    /\ max_cache_size = 0
    /\ cache = <<>>
    /\ files \in {[f \in RerunProjectFiles \cup LocalizeDestNames |->
                     IF f = SYMBOL_LIB_FILE THEN l1
                     ELSE IF f = SCHEMATIC_FILE THEN sch
                     ELSE NoFile] :
                   l1 \in LocalizeSymbolLibContents, sch \in RerunSchematicContents}
    /\ last = OpRecordNoParse("init", TRUE)
    /\ accessed = <<>>
    /\ n_updates = 0
    /\ seen = {}
    /\ scan = scan_idle
    /\ datasheet_map = <<>>
    /\ backups = <<>>
    /\ applied = <<>>
    /\ copy = [pc |-> "scan", symbol_libs |-> <<SYMBOL_LIB_FILE>>,
               schematic_files |-> LocalizeSchematics, idx |-> 1,
               all_datasheets |-> <<>>, seen_in_combined |-> {}, unique |-> <<>>,
               handed |-> <<>>, outcome |-> <<>>, downloaded_count |-> 0,
               copied_count |-> 0, run |-> 1, start |-> files,
               first |-> [files |-> files, backups |-> <<>>, unique |-> <<>>,
                          datasheet_map |-> <<>>]]

\* the second call of localize_all_datasheets, made once the first has
\* returned: its locals start afresh, the files are as the first call left
\* them
LocalizeAgain ==
    /\ copy.pc = "returned"
    /\ copy.run = 1
    /\ copy' = [copy EXCEPT !.pc = "scan", !.idx = 1, !.all_datasheets = <<>>,
                             !.seen_in_combined = {}, !.unique = <<>>,
                             !.handed = <<>>, !.outcome = <<>>,
                             !.downloaded_count = 0, !.copied_count = 0,
                             !.run = 2,
                             !.first = [files |-> files, backups |-> backups,
                                        unique |-> copy.unique,
                                        datasheet_map |-> datasheet_map]]
    /\ UNCHANGED <<parser_vars, serializer_vars, seen, scan, datasheet_map, backups, applied>>

NextRerun ==
    \/ LocalizeScan
    \/ LocalizeCopyStart
    \/ \E env \in CopyEnvs : LocalizeCopyStep(env)
    \/ LocalizeCopyReturn
    \/ \E backup_ok \in BOOLEAN, write_ok \in BOOLEAN : LocalizeUpdate(backup_ok, write_ok)
    \/ LocalizeReturn
    \/ LocalizeAgain

SpecRerun == InitRerun /\ [][NextRerun]_vars

\* the content with every quoted reference of the map replaced by its quoted
\* new reference
RewrittenContent(content, map) ==
    replace_from(content,
                 [i \in 1..Len(map) |-> <<"\"" \o map[i][1] \o "\"", "\"" \o map[i][2] \o "\"">>],
                 1, 0).new_content

\* the first run transferred every reference it accepted and every file
\* holds, for each of them, its new reference in its place
FirstRunComplete ==
    /\ \A i \in 1..Len(copy.first.unique) :
         \E j \in 1..Len(copy.first.datasheet_map) :
            /\ copy.first.datasheet_map[j][1] = copy.first.unique[i]
            /\ copy.first.files[Basename(copy.first.datasheet_map[j][2])].exists
    /\ \A f \in RerunProjectFiles :
         copy.first.files[f] =
            IF copy.start[f].exists
              THEN File(RewrittenContent(copy.start[f].content, copy.first.datasheet_map))
              ELSE copy.start[f]

-----------------------------------------------------------------------------
(* Properties of the parse cache *)

\* C2: every cache hit for a text S returns a tree structurally equal to a
\* fresh parse of S, also when parse calls are interleaved with
\* write_symbol_library, update_sym_lib_table and update_fp_lib_table.
\* Violated: the updates change the cached tree in place.
C2_HitEqualsFreshParse ==
    (last.parsed /\ last.hit) => last.result = parse_fresh(Strip(last.text)).tree

\* C3: parse never raises, whatever the input string (here on a parser whose
\* cache can hold at least one entry, so that only the scan can raise).
\* Violated: a ')' at nesting depth 0 pops the outermost list.
C3_ParseNeverRaises ==
    (last.op = "parse" /\ max_cache_size >= 1) => ~last.raised

\* C12: during a run no project file that was there before the run
\* (sym-lib-table, fp-lib-table, the local symbol library) is overwritten
\* unless a backup of its content has been made in the run: the first update
\* of a run changes an existing file only if the backups then hold the
\* content it had.
\* Violated: update_sym_lib_table, update_fp_lib_table and
\* write_symbol_library open the file for writing and make no backup.
C12_BackupBeforeOverwrite ==
    [][\A f \in DOMAIN files :
         (n_updates = 0 /\ files[f].exists /\ files'[f] # files[f])
           => \E i \in 1..Len(backups') : backups'[i] = files[f].content]_vars

\* C8: after any sequence of parse and clear_cache calls the cache holds at
\* most max_cache_size entries.
C8_CacheSizeBounded == Len(cache) <= max_cache_size

\* a parse call on a full cache evicted an entry and stored the new one
C8_Witness ==
    /\ last.op = "parse" /\ last.evicted /\ ~last.raised
    /\ max_cache_size >= 1 /\ Len(cache) = max_cache_size

\* C9: after successful parse calls on a parser with max_cache_size >= 1 the
\* cache keys are exactly the min(max_cache_size, number of distinct trimmed
\* texts) most recently accessed trimmed texts, held least recent first, a
\* hit counting as an access like a miss.
C9_KeysAreMostRecent ==
    LET n == Len(accessed)
        k == IF max_cache_size < n THEN max_cache_size ELSE n
    IN  /\ Len(cache) = k
        /\ \A j \in 1..k : cache[j].key = accessed[n - k + j]

\* more distinct texts than the cache holds were parsed, entries were
\* evicted, and the last call was a hit
C9_Witness ==
    /\ Len(accessed) > max_cache_size
    /\ max_cache_size >= 2
    /\ last.hit

====
